---- MODULE Spec2Model ----
(***************************************************************************)
(* Request admission and resource governance of the recipe parser:        *)
(* src/protection.py (client identity, blocklist, rate limiter, budget     *)
(* governor, request gate, SSRF validator), the tables of src/models.py   *)
(* it keeps its counters in, and the POST /parse and POST /save routes of  *)
(* src/recipe_parser.py.                                                   *)
(*                                                                         *)
(* Every request is served by a worker; a worker executes its handler one  *)
(* database statement at a time, so the handlers of different workers      *)
(* interleave at statement boundaries.  Each worker has its own SQLAlchemy *)
(* session: what it has read stays in its locals until it writes it back.  *)
(* Time is the integer number of clock ticks since the epoch.              *)
(***************************************************************************)
EXTENDS Integers, Sequences, FiniteSets, TLC

VARIABLES
    now,            \* the clock: datetime.utcnow() / date.today(), in ticks
    config,         \* current_app.config
    workers,        \* number of requests the deployment serves at a time
    rate_limits,    \* table rate_limits (RateLimit rows)
    rate_seq,       \* last id handed out by rate_limits.id
    api_usage,      \* table api_usage (ApiUsage rows), one per date
    blocked_ips,    \* table blocked_ips (BlockedIp rows), one per address
    recipes,        \* source_url of the rows of table recipes
    pc,             \* per worker: the statement it is about to execute
    req,            \* per worker: the request or call it is serving
    loc,            \* per worker: the handler's local variables
    res,            \* per worker: what the handler has returned so far
    started,        \* number of requests begun
    ticks,          \* number of clock advances taken
    stats,          \* history: per rate window, calls completed and admitted
    ledger,         \* history: per date, record_api_usage calls completed
    fetched,        \* history: URLs an outbound fetch was made to
    scen            \* history: progress of the end-to-end scenario

vars == <<now, config, workers, rate_limits, rate_seq, api_usage, blocked_ips,
          recipes, pc, req, loc, res, started, ticks, stats, ledger, fetched,
          scen>>

---------------------------------------------------------------------------
(* Bounds of the model *)

MaxProcs == 2           \* worker slots
MaxRequests == 3        \* requests begun in one behaviour of concurrent workers
MaxSeqRequests == 6     \* requests begun in one behaviour of a single worker
MaxClockSteps == 2      \* clock advances in one behaviour
MaxQuota == 2           \* largest RATE_LIMIT_PER_HOUR tried
TicksPerSecond == 2     \* clock resolution: ticks in a second

(* Program constants *)

SecondsPerHour == 3600  \* timedelta(hours=1)
HoursPerDay == 24       \* date.today(): a calendar date is 24 hours
DisabledRemaining == 999 \* remaining reported when rate limiting is off

Hour == SecondsPerHour * TicksPerSecond
Day == HoursPerDay * Hour

Procs == 1..MaxProcs

(* None, and the null of a nullable column; times and ids are >= 0 *)
Null == -1

---------------------------------------------------------------------------
(* Pure helpers of the handlers *)

(* int(x): truncation toward zero of n/d, d > 0 *)
IntTrunc(n, d) == IF n >= 0 THEN n \div d ELSE -((-n) \div d)

TruncToDay(t) == t - (t % Day)

(* datetime.utcnow().replace(minute=0, second=0, microsecond=0) *)
TruncToHour(t) == t - (t % Hour)

(* date.today() *)
DateOf(t) == t \div Day

IsStaleAnyPast(window_start, t) == window_start < t

(* RateLimit.window_start < datetime.utcnow() - timedelta(hours=1) *)
IsStale(window_start, t) == window_start < t - Hour

OverLimitNever(count, limit) == FALSE

OverLimitOffByOne(count, limit) == count > limit

(* rate_record.request_count >= limit *)
OverLimit(count, limit) == count >= limit

(* int((current_window + window_duration - datetime.utcnow()).total_seconds()) *)
RetryAfter(current_window, t) == IntTrunc(current_window + Hour - t, TicksPerSecond)

RemainingBeforeIncrement(limit, newCount) == limit - newCount + 1

(* limit - rate_record.request_count, after the increment *)
Remaining(limit, newCount) == limit - newCount

BlockExpiredFlipped(blocked_until, t) == blocked_until # Null /\ blocked_until > t

BlockExpiredInclusive(blocked_until, t) == blocked_until # Null /\ blocked_until <= t

(* blocked.blocked_until and blocked.blocked_until < datetime.utcnow() *)
BlockExpired(blocked_until, t) == blocked_until # Null /\ blocked_until < t

BudgetNeverExceeded(cost, budget) == FALSE

BudgetExceededStrict(cost, budget) == cost > budget

(* float(usage.estimated_cost) >= daily_budget *)
BudgetExceeded(cost, budget) == cost >= budget

(* float(usage.estimated_cost) >= daily_budget * threshold, the threshold
   being thresholdPct / 100 *)
BudgetWarning(cost, budget, thresholdPct) == cost * 100 >= budget * thresholdPct

(* if cost_estimate: Decimal(str(cost_estimate)) else COST_PER_REQUEST *)
CostToAdd(cost_estimate, default) ==
    IF cost_estimate # Null /\ cost_estimate # 0 THEN cost_estimate ELSE default

---------------------------------------------------------------------------
(* Worker state *)

NoRow == [found |-> FALSE, request_count |-> 0, estimated_cost |-> 0,
          tokens_used |-> 0]

LocInit == [ip |-> "", endpoint |-> "", del |-> {}, cw |-> Null, rec |-> Null,
            cnt |-> 0, blk |-> Null, today |-> Null, usage |-> NoRow]

ResInit == [blocked |-> "none", purged |-> FALSE, rl |-> "none", retry_after |-> 0,
            remaining |-> 0, in_window |-> TRUE, budget |-> "none",
            msg |-> "", warned |-> FALSE, http |-> 0, retry_header |-> Null,
            invoked |-> FALSE, stages |-> <<>>, error |-> "none",
            valid |-> FALSE, reason |-> "", client |-> ""]

NoReq == [kind |-> "none"]

InFlight == {p \in Procs : pc[p] \notin {"idle", "done"}}

SetPc(p, l) == pc' = [pc EXCEPT ![p] = l]
SetLoc(p, l) == loc' = [loc EXCEPT ![p] = l]
SetRes(p, r) == res' = [res EXCEPT ![p] = r]


(* The scenario monitor is switched off by anything outside the scenario *)
ScenOff == [step |-> Null, ok |-> TRUE]

---------------------------------------------------------------------------
(* get_client_ip.  The X-Forwarded-For header is the sequence of its
   comma-separated tokens, each a text with or without blanks around it; the
   empty sequence is the absent header, and the one token of empty text and
   no blanks is the empty header value.  remote_addr "" is None. *)

Token(pad, txt) == [pad |-> pad, txt |-> txt]

HeaderIsEmpty(xff) ==
    \/ xff = <<>>
    \/ Len(xff) = 1 /\ xff[1].txt = "" /\ ~xff[1].pad

(* x_forwarded_for.split(',')[0].strip() *)
FirstToken(xff) == xff[1].txt

GetClientIp(xff, remote_addr) ==
    IF ~HeaderIsEmpty(xff) THEN FirstToken(xff)
    ELSE IF remote_addr # "" THEN remote_addr ELSE "0.0.0.0"

(* A call get_client_ip() on worker p's request, and the address it returns *)
Identify(p) ==
    /\ pc[p] = "identify"
    /\ pc' = [pc EXCEPT ![p] = "done"]
    /\ res' = [res EXCEPT ![p] =
                  [@ EXCEPT !.client = GetClientIp(req[p].xff, req[p].remote_addr)]]
    /\ UNCHANGED <<now, config, workers, rate_limits, rate_seq, api_usage,
                   blocked_ips, recipes, req, loc, started, ticks, stats,
                   ledger, fetched, scen>>

---------------------------------------------------------------------------
(* require_rate_limit.decorated_function: the order of the stages *)

GateNextBudgetFirst(stage, ok) ==
    IF ~ok THEN "deny"
    ELSE CASE stage = "blocklist" -> "budget"
           [] stage = "budget" -> "rate_limit"
           [] stage = "rate_limit" -> "f"

GateNextNoShortCircuit(stage, ok) ==
    CASE stage = "blocklist" -> "rate_limit"
      [] stage = "rate_limit" -> "budget"
      [] stage = "budget" -> "f"

GateNext(stage, ok) ==
    IF ~ok THEN "deny"
    ELSE CASE stage = "blocklist" -> "rate_limit"
           [] stage = "rate_limit" -> "budget"
           [] stage = "budget" -> "f"

StagePc(stage) ==
    CASE stage = "blocklist" -> "ib_lookup"
      [] stage = "rate_limit" -> "rl_enter"
      [] stage = "budget" -> "bd_check"
      [] stage = "f" -> "call_f"

(* abort(403), the 429 response, abort(503) *)
DenyStatus(stage) ==
    CASE stage = "blocklist" -> 403
      [] stage = "rate_limit" -> 429
      [] stage = "budget" -> 503

(* The response of a denied request *)
Denied(stage, r) ==
    [r EXCEPT !.http = DenyStatus(stage),
              !.retry_header = IF stage = "rate_limit" THEN r.retry_after ELSE Null]


---------------------------------------------------------------------------
(* End of a handler, and the return of a stage into decorated_function *)

ClientX == "192.0.2.100"
ClientY == "203.0.113.100"
ProxyAddr == "10.1.1.1"

(* quota 2, budget $0.01, $0.005 a request *)
ScenConfig == [enabled |-> TRUE, limit |-> 2, budget |-> 100, cost |-> 50,
               threshold |-> 80]

ScenStart(cfg, blocks) ==
    IF cfg = ScenConfig /\ DOMAIN blocks = {}
    THEN [step |-> 0, ok |-> TRUE]
    ELSE ScenOff

(* The monitor after worker p's request ended with res r and api_usage usage:
   the request is the scenario's next one and its outcome is compared with
   the scenario's, or the behaviour has left the scenario *)
ScenAfter(p, r, usage) ==
    IF scen.step = Null THEN scen
    ELSE LET k == scen.step
             q == req[p]
             d == DateOf(now)
             cost == IF d \in DOMAIN usage THEN usage[d].estimated_cost ELSE 0
             gateFrom(a) == q.kind = "gate" /\ loc[p].ip = a
             record == /\ q.kind = "record"
                       /\ (IF q.cost_estimate # Null THEN q.cost_estimate
                           ELSE config.cost) = 50
             expected == CASE k \in {0, 2, 4} -> gateFrom(ClientX)
                           [] k \in {1, 3} -> record
                           [] k = 5 -> gateFrom(ClientY)
                           [] OTHER -> FALSE
             outcome == CASE k = 0 -> r.http = 200 /\ r.invoked /\ r.remaining = 1
                          [] k = 1 -> cost = 50
                          [] k = 2 -> r.http = 200 /\ r.invoked /\ r.remaining = 0
                          [] k = 3 -> cost = 100
                          [] k = 4 -> r.http = 429 /\ r.rl = "deny" /\ ~r.invoked
                          [] k = 5 -> r.http = 503 /\ r.budget = "exceeded"
                                      /\ ~r.invoked
                          [] OTHER -> TRUE
         IN IF expected THEN [step |-> k + 1, ok |-> scen.ok /\ outcome]
            ELSE ScenOff

FinishWith(p, r, usage) ==
    /\ SetPc(p, "done")
    /\ SetRes(p, r)
    /\ SetLoc(p, LocInit)
    /\ scen' = ScenAfter(p, r, usage)

Finish(p, r) == FinishWith(p, r, api_usage)

RaiseMasked(p, name) ==
    /\ SetPc(p, "call_f")
    /\ SetRes(p, [res[p] EXCEPT !.error = name])
    /\ UNCHANGED <<loc, scen>>

(* An exception leaves the handler: the response is a 500 *)
Raise(p, name) == Finish(p, [res[p] EXCEPT !.error = name, !.http = 500])

Return(p, stage, ok, r) ==
    IF req[p].kind = "gate"
    THEN LET nxt == GateNext(stage, ok) IN
         IF nxt = "deny"
         THEN Finish(p, Denied(stage, r))
         ELSE /\ SetPc(p, StagePc(nxt))
              /\ SetRes(p, [r EXCEPT !.stages = Append(@, nxt)])
              /\ UNCHANGED <<loc, scen>>
    ELSE Finish(p, r)

---------------------------------------------------------------------------
(* check_rate_limit(ip_address, endpoint) *)

RateKeyWithoutAddress(ip, endpoint, window_start) ==
    [ip_address |-> "", endpoint |-> endpoint, window_start |-> window_start]

RateKey(ip, endpoint, window_start) ==
    [ip_address |-> ip, endpoint |-> endpoint, window_start |-> window_start]

KeyOf(row) == RateKey(row.ip_address, row.endpoint, row.window_start)

NoStats == [calls |-> 0, admitted |-> 0]

StatsOf(k) == IF k \in DOMAIN stats THEN stats[k] ELSE NoStats

Counted(k, admit) ==
    [x \in DOMAIN stats \cup {k} |->
        IF x = k
        THEN [calls |-> StatsOf(k).calls + 1,
              admitted |-> StatsOf(k).admitted + (IF admit THEN 1 ELSE 0)]
        ELSE stats[x]]

LimiterAlwaysEnabled(cfg) == TRUE

(* current_app.config.get('RATE_LIMIT_ENABLED', True) *)
RateLimitEnabled(cfg) == cfg.enabled

(* Lines 65-73: the kill switch, and the DELETE of the old rows, which takes
   effect when this session commits *)
RlEnter(p) ==
    /\ pc[p] = "rl_enter"
    /\ IF ~RateLimitEnabled(config)
       THEN /\ Return(p, "rate_limit", TRUE,
                      [res[p] EXCEPT !.rl = "allow", !.retry_after = 0,
                                     !.remaining = DisabledRemaining])
       ELSE /\ SetLoc(p, [loc[p] EXCEPT !.del =
                            {row.id : row \in {x \in rate_limits :
                                                 IsStale(x.window_start, now)}}])
            /\ SetPc(p, "rl_lookup")
            /\ UNCHANGED <<res, scen>>
    /\ UNCHANGED <<now, config, workers, rate_limits, rate_seq, api_usage,
                   blocked_ips, recipes, req, started, ticks, stats, ledger,
                   fetched>>

(* Lines 76-90: the window of the current hour, and its row: the first one the
   query finds, or a new one with request_count 0 (rec = 0) *)
RlLookup(p) ==
    /\ pc[p] = "rl_lookup"
    /\ LET cw == TruncToHour(now)
           found == {x \in rate_limits :
                        /\ x.id \notin loc[p].del
                        /\ KeyOf(x) = RateKey(loc[p].ip, loc[p].endpoint, cw)}
       IN IF found = {}
          THEN SetLoc(p, [loc[p] EXCEPT !.cw = cw, !.rec = 0, !.cnt = 0])
          ELSE \E x \in found :
                  SetLoc(p, [loc[p] EXCEPT !.cw = cw, !.rec = x.id,
                                           !.cnt = x.request_count])
    /\ SetPc(p, "rl_decide")
    /\ UNCHANGED <<now, config, workers, rate_limits, rate_seq, api_usage,
                   blocked_ips, recipes, req, res, started, ticks, stats,
                   ledger, fetched, scen>>

CountedOnDeny(table, l) ==
    {IF x.id = l.rec THEN [x EXCEPT !.request_count = @ + 1] ELSE x : x \in table}

(* Lines 93-95: the return before the commit; what the session had pending,
   the DELETE of the old rows and a row it added, is rolled back with it *)
RolledBack(table, l) == table

(* Lines 93-102: deny without committing, or write request_count + 1 of the
   value read and commit.  The UPDATE of a row that is gone raises
   StaleDataError and the session is rolled back. *)
RlDecide(p) ==
    /\ pc[p] = "rl_decide"
    /\ LET l == loc[p]
           k == RateKey(l.ip, l.endpoint, l.cw)
           kept == {x \in rate_limits : x.id \notin l.del}
       IN IF OverLimit(l.cnt, config.limit)
          THEN /\ Return(p, "rate_limit", FALSE,
                         [res[p] EXCEPT !.rl = "deny",
                                        !.retry_after = RetryAfter(l.cw, now),
                                        !.remaining = 0,
                                        !.in_window = (TruncToHour(now) = l.cw)])
               /\ stats' = Counted(k, FALSE)
               /\ rate_limits' = RolledBack(rate_limits, l)
               /\ UNCHANGED rate_seq
          ELSE IF l.rec # 0 /\ ~(\E x \in rate_limits : x.id = l.rec)
          THEN /\ Raise(p, "StaleDataError")
               /\ UNCHANGED <<rate_limits, rate_seq, stats>>
          ELSE /\ IF l.rec = 0
                  THEN /\ rate_seq' = rate_seq + 1
                       /\ rate_limits' = kept \cup
                            {[id |-> rate_seq + 1, ip_address |-> l.ip,
                              endpoint |-> l.endpoint, window_start |-> l.cw,
                              request_count |-> l.cnt + 1]}
                  ELSE /\ rate_seq' = rate_seq
                       /\ rate_limits' =
                            {IF x.id = l.rec
                             THEN [x EXCEPT !.request_count = l.cnt + 1]
                             ELSE x : x \in kept}
               /\ stats' = Counted(k, TRUE)
               /\ Return(p, "rate_limit", TRUE,
                         [res[p] EXCEPT !.rl = "allow", !.retry_after = 0,
                                        !.remaining =
                                            Remaining(config.limit, l.cnt + 1)])
    /\ UNCHANGED <<now, config, workers, api_usage, blocked_ips, recipes, req,
                   started, ticks, ledger, fetched>>


---------------------------------------------------------------------------
(* is_ip_blocked(ip_address) *)

(* Line 46-48: the lookup of the address's entry *)
IbLookup(p) ==
    /\ pc[p] = "ib_lookup"
    /\ IF loc[p].ip \notin DOMAIN blocked_ips
       THEN /\ Return(p, "blocklist", TRUE, [res[p] EXCEPT !.blocked = "clear"])
       ELSE /\ SetLoc(p, [loc[p] EXCEPT !.blk = blocked_ips[loc[p].ip]])
            /\ SetPc(p, "ib_check")
            /\ UNCHANGED <<res, scen>>
    /\ UNCHANGED <<now, config, workers, rate_limits, rate_seq, api_usage,
                   blocked_ips, recipes, req, started, ticks, stats, ledger,
                   fetched>>

(* Lines 51-56: an expired entry is deleted and the address is not blocked; the
   DELETE of an entry that is already gone deletes nothing *)
IbCheck(p) ==
    /\ pc[p] = "ib_check"
    /\ IF BlockExpired(loc[p].blk, now)
       THEN /\ blocked_ips' = [a \in DOMAIN blocked_ips \ {loc[p].ip} |->
                                  blocked_ips[a]]
            /\ Return(p, "blocklist", TRUE,
                      [res[p] EXCEPT !.blocked = "clear", !.purged = TRUE])
       ELSE /\ UNCHANGED blocked_ips
            /\ Return(p, "blocklist", FALSE,
                      [res[p] EXCEPT !.blocked = "blocked"])
    /\ UNCHANGED <<now, config, workers, rate_limits, rate_seq, api_usage,
                   recipes, req, started, ticks, stats, ledger, fetched>>

---------------------------------------------------------------------------
(* History of the budget governor *)

NoLedger == [n |-> 0, cost |-> 0, added |-> 0, tokens |-> 0, denied |-> FALSE]

LedgerOf(d) == IF d \in DOMAIN ledger THEN ledger[d] ELSE NoLedger

(* The ledger keeps, of the record_api_usage calls of a date that returned:
   their number, the sum of the costs their callers meant, the sum of the
   costs the calls added, and the sum of their tokens; and whether a
   check_daily_budget of the date has denied *)
Entered(d, cost, added, tokens) ==
    [x \in DOMAIN ledger \cup {d} |->
        IF x = d
        THEN [n |-> LedgerOf(d).n + 1, cost |-> LedgerOf(d).cost + cost,
              added |-> LedgerOf(d).added + added,
              tokens |-> LedgerOf(d).tokens + tokens,
              denied |-> LedgerOf(d).denied]
        ELSE ledger[x]]

(* The ledger after a check_daily_budget of date d has denied *)
Refused(d) ==
    [x \in DOMAIN ledger \cup {d} |->
        IF x = d THEN [LedgerOf(d) EXCEPT !.denied = TRUE] ELSE ledger[x]]

---------------------------------------------------------------------------
(* check_daily_budget() *)

UsageCreatedOnRead(usage, today) ==
    [d \in DOMAIN usage \cup {today} |->
        IF d \in DOMAIN usage THEN usage[d]
        ELSE [request_count |-> 0, estimated_cost |-> 0, tokens_used |-> 0]]

(* Lines 111-115: the query of today's row; nothing is added to the session
   and nothing is committed *)
UsageRead(usage, today) == usage

BdCheck(p) ==
    /\ pc[p] = "bd_check"
    /\ api_usage' = UsageRead(api_usage, DateOf(now))
    /\ LET today == DateOf(now) IN
       IF today \notin DOMAIN api_usage
       THEN /\ Return(p, "budget", TRUE, [res[p] EXCEPT !.budget = "ok"])
            /\ UNCHANGED ledger
       ELSE IF BudgetExceeded(api_usage[today].estimated_cost, config.budget)
       THEN /\ Return(p, "budget", FALSE,
                      [res[p] EXCEPT !.budget = "exceeded",
                                     !.msg = "Daily API budget exceeded. Please try again tomorrow."])
            /\ ledger' = Refused(today)
       ELSE /\ Return(p, "budget", TRUE,
                      [res[p] EXCEPT !.budget = "ok",
                                     !.warned = BudgetWarning(
                                                   api_usage[today].estimated_cost,
                                                   config.budget,
                                                   config.threshold)])
            /\ UNCHANGED ledger
    /\ UNCHANGED <<now, config, workers, rate_limits, rate_seq,
                   blocked_ips, recipes, req, started, ticks, stats,
                   fetched>>

---------------------------------------------------------------------------
(* record_api_usage(cost_estimate, tokens_used) *)

(* The cost a caller means to record: its estimate, or the default *)
CostMeant(cost_estimate, default) ==
    IF cost_estimate # Null THEN cost_estimate ELSE default

(* Lines 132-142: today's row as this session reads it, or a new one *)
RuRead(p) ==
    /\ pc[p] = "ru_read"
    /\ LET today == DateOf(now) IN
       SetLoc(p, [loc[p] EXCEPT
                    !.today = today,
                    !.usage = IF today \in DOMAIN api_usage
                              THEN [found |-> TRUE,
                                    request_count |-> api_usage[today].request_count,
                                    estimated_cost |-> api_usage[today].estimated_cost,
                                    tokens_used |-> api_usage[today].tokens_used]
                              ELSE NoRow])
    /\ SetPc(p, "ru_write")
    /\ UNCHANGED <<now, config, workers, rate_limits, rate_seq, api_usage,
                   blocked_ips, recipes, req, res, started, ticks, stats,
                   ledger, fetched, scen>>

(* The row after lines 144-152, from the values this session read *)
UsageAfter(u, cost_estimate, tokens_used, default) ==
    [request_count |-> u.request_count + 1,
     estimated_cost |-> u.estimated_cost + CostToAdd(cost_estimate, default),
     tokens_used |-> u.tokens_used + tokens_used]

DateNeverTaken(usage, d) == FALSE

(* ApiUsage.date is unique: the table has a row of date d already *)
DateTaken(usage, d) == d \in DOMAIN usage

(* Lines 144-153: the commit.  A new row is INSERTed, and the unique date
   makes a second INSERT for the date fail; a row that was read is UPDATEd
   with the columns this session changed. *)
RuWrite(p) ==
    /\ pc[p] = "ru_write"
    /\ LET l == loc[p]
           d == l.today
           new == UsageAfter(l.usage, req[p].cost_estimate, req[p].tokens_used,
                             config.cost)
       IN IF ~l.usage.found /\ DateTaken(api_usage, d)
          THEN /\ Raise(p, "IntegrityError")
               /\ UNCHANGED <<api_usage, ledger>>
          ELSE LET row == IF ~l.usage.found THEN new
                          ELSE [request_count |-> new.request_count,
                                estimated_cost |->
                                    IF new.estimated_cost # l.usage.estimated_cost
                                    THEN new.estimated_cost
                                    ELSE api_usage[d].estimated_cost,
                                tokens_used |->
                                    IF new.tokens_used # l.usage.tokens_used
                                    THEN new.tokens_used
                                    ELSE api_usage[d].tokens_used]
                   usage == [x \in DOMAIN api_usage \cup {d} |->
                                IF x = d THEN row ELSE api_usage[x]]
               IN /\ api_usage' = usage
                  /\ ledger' = Entered(d,
                                       CostMeant(req[p].cost_estimate, config.cost),
                                       CostToAdd(req[p].cost_estimate, config.cost),
                                       req[p].tokens_used)
                  /\ FinishWith(p, res[p], usage)
    /\ UNCHANGED <<now, config, workers, rate_limits, rate_seq, blocked_ips,
                   recipes, req, started, ticks, stats, fetched>>

---------------------------------------------------------------------------
(* decorated_function, line 235: the wrapped, expensive operation *)

CallF(p) ==
    /\ pc[p] = "call_f"
    /\ Finish(p, [res[p] EXCEPT !.invoked = TRUE, !.http = 200])
    /\ UNCHANGED <<now, config, workers, rate_limits, rate_seq, api_usage,
                   blocked_ips, recipes, req, started, ticks, stats,
                   ledger, fetched>>


---------------------------------------------------------------------------
(* validate_url_for_ssrf(url).  A text is the sequence of its character
   codes.  A URL is [scheme, host]: the scheme it was typed with ("" when it
   has none) and the text of its network location, what stands between the
   "//" and the path.  urlparse is the one of CPython 3.11.4 and later. *)

Lower(c) == IF c \in 65..90 THEN c + 32 ELSE c

LowerStr(s) == [i \in 1..Len(s) |-> Lower(s[i])]

EndsWith(s, suffix) ==
    /\ Len(s) >= Len(suffix)
    /\ SubSeq(s, Len(s) - Len(suffix) + 1, Len(s)) = suffix

TxtLocalhost == <<108, 111, 99, 97, 108, 104, 111, 115, 116>>      \* "localhost"
TxtLocalhostLocaldomain ==
    <<108, 111, 99, 97, 108, 104, 111, 115, 116, 46, 108, 111, 99, 97, 108, 100, 111, 109, 97, 105, 110>>      \* "localhost.localdomain"
TxtDotLocal == <<46, 108, 111, 99, 97, 108>>      \* ".local"
TxtDotLocalhost == <<46, 108, 111, 99, 97, 108, 104, 111, 115, 116>>      \* ".localhost"

Dot == 46
Colon == 58
At == 64
OpenBracket == 91
CloseBracket == 93
LetterV == 118
Digits == 48..57
HexDigits == Digits \cup (97..102) \cup (65..70)

Has(s, c) == \E i \in 1..Len(s) : s[i] = c

FirstAt(s, c) == CHOOSE i \in 1..Len(s) : s[i] = c /\ \A m \in 1..(i - 1) : s[m] # c

LastAt(s, c) == CHOOSE i \in 1..Len(s) : s[i] = c /\ \A m \in (i + 1)..Len(s) : s[m] # c

(* s.partition(c)[0] and s.partition(c)[2]; s.rpartition(c)[2] *)
Before(s, c) == IF Has(s, c) THEN SubSeq(s, 1, FirstAt(s, c) - 1) ELSE s

After(s, c) == IF Has(s, c) THEN SubSeq(s, FirstAt(s, c) + 1, Len(s)) ELSE <<>>

AfterLast(s, c) == IF Has(s, c) THEN SubSeq(s, LastAt(s, c) + 1, Len(s)) ELSE s

(* s.split(c) *)
RECURSIVE SplitAt(_, _)
SplitAt(s, c) ==
    IF Has(s, c) THEN <<Before(s, c)>> \o SplitAt(After(s, c), c) ELSE <<s>>

(* The texts between the dots of s *)
SplitDots(s) == SplitAt(s, Dot)

RECURSIVE DecimalValue(_)
DecimalValue(s) ==
    IF s = <<>> THEN 0
    ELSE 10 * DecimalValue(SubSeq(s, 1, Len(s) - 1)) + (s[Len(s)] - 48)

(* An octet of ipaddress.IPv4Address: 1 to 3 digits, no leading zero, <= 255 *)
IsOctet(s) ==
    /\ Len(s) \in 1..3
    /\ \A i \in 1..Len(s) : s[i] \in Digits
    /\ Len(s) > 1 => s[1] # 48
    /\ DecimalValue(s) <= 255

(* Four octets *)
IsQuad(parts) == Len(parts) = 4 /\ \A i \in 1..4 : IsOctet(parts[i])

QuadValue(parts) == [i \in 1..4 |-> DecimalValue(parts[i])]

(* ipaddress.IPv4Address(s) does not raise *)
IsIPv4(s) == IsQuad(SplitDots(s))

(* The four octets of the address *)
IPv4Value(s) == QuadValue(SplitDots(s))

HexDigitValue(c) ==
    IF c \in Digits THEN c - 48 ELSE IF c \in 97..102 THEN c - 87 ELSE c - 55

RECURSIVE HexValue(_)
HexValue(s) ==
    IF s = <<>> THEN 0
    ELSE 16 * HexValue(SubSeq(s, 1, Len(s) - 1)) + HexDigitValue(s[Len(s)])

(* A field of an IPv6 text that is empty, and one that is no hextet *)
EmptyGroup == -1
BadGroup == -2

(* ipaddress.IPv6Address._parse_hextet *)
GroupValue(t) ==
    IF t = <<>> THEN EmptyGroup
    ELSE IF Len(t) <= 4 /\ \A i \in 1..Len(t) : t[i] \in HexDigits THEN HexValue(t)
    ELSE BadGroup

(* The values of the colon-separated fields, the last field being the
   dot-separated texts q: a dotted quad at the end counts as two fields *)
FieldsOf(parts, n, q) ==
    IF Len(q) > 1
    THEN IF IsQuad(q)
         THEN [i \in 1..(n + 1) |->
                  IF i < n THEN GroupValue(parts[i])
                  ELSE IF i = n
                  THEN DecimalValue(q[1]) * 256 + DecimalValue(q[2])
                  ELSE DecimalValue(q[3]) * 256 + DecimalValue(q[4])]
         ELSE <<BadGroup>>
    ELSE [i \in 1..n |-> GroupValue(parts[i])]

IPv6Fields(parts) == FieldsOf(parts, Len(parts), SplitDots(parts[Len(parts)]))

(* The groups of fields f with the "::" at field i: hi fields before it and
   lo fields after it *)
Expanded(f, n, hi, lo) ==
    IF 8 - (hi + lo) < 1 THEN <<>>
    ELSE [k \in 1..8 |->
             IF k <= hi THEN f[k]
             ELSE IF k <= 8 - lo THEN 0
             ELSE f[n - (8 - k)]]

AllGroups(g) == IF \A k \in 1..Len(g) : g[k] >= 0 THEN g ELSE <<>>

WithSkip(f, n, i) ==
    IF \/ f[1] = EmptyGroup /\ i # 2
       \/ f[n] = EmptyGroup /\ i # n - 1
    THEN <<>>
    ELSE AllGroups(Expanded(f, n,
                            IF f[1] = EmptyGroup THEN 0 ELSE i - 1,
                            IF f[n] = EmptyGroup THEN 0 ELSE n - i))

GroupsOf(f, n, nparts, skips) ==
    IF nparts < 3 \/ n > 9 \/ Cardinality(skips) > 1 THEN <<>>
    ELSE IF skips # {} THEN WithSkip(f, n, CHOOSE j \in skips : TRUE)
    ELSE IF n = 8 THEN AllGroups(f) ELSE <<>>

FieldGroups(f, nparts) ==
    GroupsOf(f, Len(f), nparts, {i \in 2..(Len(f) - 1) : f[i] = EmptyGroup})

PartGroups(parts) == FieldGroups(IPv6Fields(parts), Len(parts))

(* ipaddress.IPv6Address._ip_int_from_string: the eight groups of the address,
   or <<>> where it raises *)
IPv6Value(s) == PartGroups(SplitAt(s, Colon))

IsIPv6(s) == IPv6Value(s) # <<>>

AddressOf(q, g) ==
    IF IsQuad(q) THEN [version |-> 4, parts |-> QuadValue(q)]
    ELSE IF g # <<>> THEN [version |-> 6, parts |-> g]
    ELSE [version |-> 0, parts |-> <<>>]

(* ipaddress.ip_address(hostname): version 0 where it raises ValueError *)
ip_address(s) == AddressOf(SplitDots(s), IPv6Value(s))

Net(a, b, c, d, prefix) ==
    [version |-> 4, base |-> <<a, b, c, d>>, prefix |-> prefix]

Net6(base, prefix) == [version |-> 6, base |-> base, prefix |-> prefix]

PrivateRangesWithoutLinkLocal ==
    {Net(10, 0, 0, 0, 8), Net(172, 16, 0, 0, 12), Net(192, 168, 0, 0, 16),
     Net(127, 0, 0, 0, 8),
     Net6(<<0, 0, 0, 0, 0, 0, 0, 1>>, 128),
     Net6(<<64512, 0, 0, 0, 0, 0, 0, 0>>, 7),
     Net6(<<65152, 0, 0, 0, 0, 0, 0, 0>>, 10)}

(* PRIVATE_IP_RANGES; 0xfc00 = 64512, 0xfe80 = 65152 *)
PRIVATE_IP_RANGES ==
    {Net(10, 0, 0, 0, 8), Net(172, 16, 0, 0, 12), Net(192, 168, 0, 0, 16),
     Net(127, 0, 0, 0, 8), Net(169, 254, 0, 0, 16),
     Net6(<<0, 0, 0, 0, 0, 0, 0, 1>>, 128),
     Net6(<<64512, 0, 0, 0, 0, 0, 0, 0>>, 7),
     Net6(<<65152, 0, 0, 0, 0, 0, 0, 0>>, 10)}

(* The bits of a part of an address: an octet, or a group of 16 *)
PartBits(version) == IF version = 4 THEN 8 ELSE 16

(* The leading bits of part i, of w bits, that a prefix covers, as the
   divisor that drops the other bits *)
PrefixBits(prefix, i, w) ==
    IF prefix >= w * i THEN w
    ELSE IF prefix <= w * (i - 1) THEN 0
    ELSE prefix - w * (i - 1)

SamePrefix(x, y, drop) == x \div (2 ^ drop) = y \div (2 ^ drop)

InNetworkAnyVersion(ip, net) ==
    \A i \in 1..Len(net.base) :
        i \in DOMAIN ip.parts =>
            SamePrefix(ip.parts[i], net.base[i],
                       PartBits(net.version)
                           - PrefixBits(net.prefix, i, PartBits(net.version)))

(* ip in private_range: of the network's version, and the address and the
   network agree on the prefix *)
InNetwork(ip, net) ==
    /\ ip.version = net.version
    /\ \A i \in 1..Len(net.base) :
           SamePrefix(ip.parts[i], net.base[i],
                      PartBits(net.version)
                          - PrefixBits(net.prefix, i, PartBits(net.version)))

(* urlsplit's check of the host between brackets: an IPv6 address, or
   v<hex>.<text> *)
IsIPvFuture(h) ==
    /\ Has(h, Dot)
    /\ FirstAt(h, Dot) >= 3 /\ FirstAt(h, Dot) < Len(h)
    /\ \A i \in 2..(FirstAt(h, Dot) - 1) : h[i] \in HexDigits

BracketedHostOk(h) ==
    IF h # <<>> /\ h[1] = LetterV THEN IsIPvFuture(h) ELSE IsIPv6(h)

BracketsRaise(netloc) ==
    \/ Has(netloc, OpenBracket) # Has(netloc, CloseBracket)
    \/ /\ Has(netloc, OpenBracket)
       /\ ~BracketedHostOk(Before(After(netloc, OpenBracket), CloseBracket))

(* urlparse(url) raises ValueError: brackets that do not pair, or that hold
   no IPv6 address *)
UrlparseRaises(url) == url.scheme # "" /\ BracketsRaise(url.host)

HostOf(hostinfo) ==
    IF Has(hostinfo, OpenBracket)
    THEN Before(After(hostinfo, OpenBracket), CloseBracket)
    ELSE Before(hostinfo, Colon)

(* urlparse(url).hostname: the network location without its user
   information, its brackets and its port, lower-cased; None (the empty text)
   when the URL has no network location or its host is empty *)
Hostname(url) ==
    IF url.scheme = "" THEN <<>> ELSE LowerStr(HostOf(AfterLast(url.host, At)))

(* Lines 171-193, for the hostname, its lower-cased text and its address *)
Decide(hostname, lower, ip) ==
    IF hostname = <<>>
    THEN [ok |-> FALSE, reason |-> "Invalid URL: no hostname found"]
    ELSE IF lower \in {TxtLocalhost, TxtLocalhostLocaldomain}
    THEN [ok |-> FALSE,
          reason |-> "Localhost URLs are not allowed for security reasons"]
    ELSE IF ip.version # 0
    THEN IF \E net \in PRIVATE_IP_RANGES : InNetwork(ip, net)
         THEN [ok |-> FALSE,
               reason |-> "Private IP addresses are not allowed for security reasons"]
         ELSE [ok |-> TRUE, reason |-> ""]
    ELSE IF EndsWith(lower, TxtDotLocal) \/ EndsWith(lower, TxtDotLocalhost)
    THEN [ok |-> FALSE,
          reason |-> "Local domain names are not allowed for security reasons"]
    ELSE [ok |-> TRUE, reason |-> ""]

DecideHost(hostname) == Decide(hostname, LowerStr(hostname), ip_address(hostname))

validate_url_for_ssrf(url) ==
    IF UrlparseRaises(url)
    THEN [ok |-> FALSE, reason |-> "Invalid URL format"]
    ELSE DecideHost(Hostname(url))

(* A call validate_url_for_ssrf(url) and the pair it returns *)
ValidateAs(p, v) ==
    /\ pc[p] = "validate"
    /\ Finish(p, [res[p] EXCEPT !.valid = v.ok, !.reason = v.reason])
    /\ UNCHANGED <<now, config, workers, rate_limits, rate_seq, api_usage,
                   blocked_ips, recipes, req, started, ticks, stats,
                   ledger, fetched>>

Validate(p) == ValidateAs(p, validate_url_for_ssrf(req[p].url))

---------------------------------------------------------------------------
(* POST /parse and POST /save of recipe_parser.py *)

NoUrl == [scheme |-> "", host |-> <<>>]

(* if not url.startswith(('http://', 'https://')): url = 'https://' + url *)
WithScheme(url) == IF url.scheme = "" THEN [url EXCEPT !.scheme = "https"] ELSE url

(* parse(), lines 261-272: no URL, or a recipe that is already saved *)
ParseLookup(p) ==
    /\ pc[p] = "parse_lookup"
    /\ IF req[p].url = NoUrl
       THEN /\ Finish(p, [res[p] EXCEPT !.http = 200, !.error = "No URL provided"])
       ELSE IF WithScheme(req[p].url) \in recipes
       THEN /\ Finish(p, [res[p] EXCEPT !.http = 302])
       ELSE /\ SetPc(p, "parse_fetch")
            /\ UNCHANGED <<loc, res, scen>>
    /\ UNCHANGED <<now, config, workers, rate_limits, rate_seq, api_usage,
                   blocked_ips, recipes, req, started, ticks, stats, ledger,
                   fetched>>

(* parse(), lines 275-278: parse_recipe(url) -> parse_recipe_html(url) ->
   session.get(url), and the result page: the recipe, or the error
   parse_recipe_html caught *)
ParseFetch(p) ==
    /\ pc[p] = "parse_fetch"
    /\ fetched' = fetched \cup {WithScheme(req[p].url)}
    /\ \E extracted \in BOOLEAN :
          Finish(p, [res[p] EXCEPT !.http = 200,
                                   !.error = IF extracted THEN "none"
                                             ELSE "extraction failed"])
    /\ UNCHANGED <<now, config, workers, rate_limits, rate_seq, api_usage,
                   blocked_ips, recipes, req, started, ticks, stats,
                   ledger>>

(* save_recipe(), lines 281-314 *)
SaveRecipe(p) ==
    /\ pc[p] = "save"
    /\ recipes' = recipes \cup {req[p].url}
    /\ Finish(p, [res[p] EXCEPT !.http = 302])
    /\ UNCHANGED <<now, config, workers, rate_limits, rate_seq, api_usage,
                   blocked_ips, req, started, ticks, stats, ledger,
                   fetched>>


---------------------------------------------------------------------------
(* The arrival of a request, and the clock *)

EntryPc(kind) ==
    CASE kind = "gate" -> StagePc("blocklist")
      [] kind = "blocked" -> "ib_lookup"
      [] kind = "rl" -> "rl_enter"
      [] kind = "budget" -> "bd_check"
      [] kind = "record" -> "ru_read"
      [] kind = "parse" -> "parse_lookup"
      [] kind = "save" -> "save"

(* decorated_function line 211 and the call check_rate_limit(ip) of line 218,
   whose endpoint is the default '/parse'; or the arguments of a direct call *)
LocOf(r) ==
    CASE r.kind = "gate" ->
            [LocInit EXCEPT !.ip = GetClientIp(r.xff, r.remote_addr),
                            !.endpoint = "/parse"]
      [] r.kind = "blocked" -> [LocInit EXCEPT !.ip = r.ip]
      [] r.kind = "rl" -> [LocInit EXCEPT !.ip = r.ip, !.endpoint = r.endpoint]
      [] OTHER -> LocInit

(* A request goes to the first worker that is free *)
Begin(p, r, limit) ==
    /\ p <= workers
    /\ pc[p] \in {"idle", "done"}
    /\ \A q \in 1..(p - 1) : pc[q] \notin {"idle", "done"}
    /\ started < limit
    /\ started' = started + 1
    /\ req' = [req EXCEPT ![p] = r]
    /\ SetLoc(p, LocOf(r))
    /\ SetRes(p, IF r.kind = "gate"
                 THEN [ResInit EXCEPT !.stages = <<"blocklist">>]
                 ELSE ResInit)
    /\ SetPc(p, EntryPc(r.kind))
    /\ scen' = IF InFlight # {} THEN ScenOff ELSE scen
    /\ UNCHANGED <<now, config, workers, rate_limits, rate_seq, api_usage,
                   blocked_ips, recipes, ticks, stats, ledger, fetched>>

Tick(steps) ==
    /\ ticks < MaxClockSteps
    /\ ticks' = ticks + 1
    /\ \E d \in steps : now' = now + d
    /\ scen' = IF TruncToHour(now') # TruncToHour(now) THEN ScenOff ELSE scen
    /\ UNCHANGED <<config, workers, rate_limits, rate_seq, api_usage,
                   blocked_ips, recipes, pc, req, loc, res, started, stats,
                   ledger, fetched>>

---------------------------------------------------------------------------
(* Initial states *)

StartTime == Day

NoBlocks == [a \in {} |-> Null]

InitWorkers ==
    /\ pc = [p \in Procs |-> "idle"]
    /\ req = [p \in Procs |-> NoReq]
    /\ loc = [p \in Procs |-> LocInit]
    /\ res = [p \in Procs |-> ResInit]
    /\ started = 0
    /\ ticks = 0

InitEmpty ==
    /\ now = StartTime
    /\ rate_limits = {}
    /\ rate_seq = 0
    /\ api_usage = [d \in {} |-> NoRow]
    /\ recipes = {}
    /\ stats = [k \in {} |-> NoStats]
    /\ ledger = [d \in {} |-> NoLedger]
    /\ fetched = {}
    /\ InitWorkers

---------------------------------------------------------------------------
(* The rate limiter called directly, by concurrent workers or by one *)

Endpoints == {"/parse", "/save"}

RlCalls == [kind : {"rl"}, ip : {ClientX, ClientY}, endpoint : Endpoints]

LimiterConfigs ==
    [enabled : BOOLEAN, limit : 1..MaxQuota, budget : {100}, cost : {50},
     threshold : {80}]

(* One tick, and one tick less than an hour *)
LimiterSteps == {1, Hour - 1}

InitLimiter ==
    /\ InitEmpty
    /\ config \in LimiterConfigs
    /\ workers = MaxProcs
    /\ blocked_ips = NoBlocks
    /\ scen = ScenOff

NextLimiter ==
    \/ \E p \in Procs : \E r \in RlCalls : Begin(p, r, MaxRequests)
    \/ \E p \in Procs : RlEnter(p)
    \/ \E p \in Procs : RlLookup(p)
    \/ \E p \in Procs : RlDecide(p)
    \/ Tick(LimiterSteps)

SpecLimiter == InitLimiter /\ [][NextLimiter]_vars

InitSeqLimiter == InitLimiter!1 /\ InitLimiter!2 /\ workers = 1
                  /\ blocked_ips = NoBlocks /\ scen = ScenOff

NextSeqLimiter ==
    \/ \E p \in Procs : \E r \in RlCalls : Begin(p, r, MaxQuota + 1)
    \/ \E p \in Procs : RlEnter(p)
    \/ \E p \in Procs : RlLookup(p)
    \/ \E p \in Procs : RlDecide(p)
    \/ Tick(LimiterSteps)

SeqLimiter == InitSeqLimiter /\ [][NextSeqLimiter]_vars

---------------------------------------------------------------------------
(* The rate limiter started over a table that already has rows: the window of
   the first client at its quota, and a window of two hours before *)

KillConfigs ==
    [enabled : BOOLEAN, limit : {1}, budget : {100}, cost : {50},
     threshold : {80}]

RowAtQuota ==
    [id |-> 1, ip_address |-> ClientX, endpoint |-> "/parse",
     window_start |-> StartTime, request_count |-> 1]

RowStale ==
    [id |-> 2, ip_address |-> ClientX, endpoint |-> "/parse",
     window_start |-> StartTime - 2 * Hour, request_count |-> 1]

InitKill ==
    /\ now = StartTime
    /\ rate_limits \in SUBSET {RowAtQuota, RowStale}
    /\ rate_seq = 2
    /\ api_usage = [d \in {} |-> NoRow]
    /\ recipes = {}
    /\ stats = [k \in {} |-> NoStats]
    /\ ledger = [d \in {} |-> NoLedger]
    /\ fetched = {}
    /\ InitWorkers
    /\ config \in KillConfigs
    /\ workers = MaxProcs
    /\ blocked_ips = NoBlocks
    /\ scen = ScenOff

SpecKill == InitKill /\ [][NextLimiter]_vars

---------------------------------------------------------------------------
(* The gate: requests through decorated_function, by one worker or by
   concurrent ones, and the usage recorded for the operations that succeeded *)

(* The proxy's X-Forwarded-For with the client's address first *)
GateRequests ==
    {[kind |-> "gate", xff |-> <<Token(FALSE, a), Token(TRUE, "10.1.1.1")>>,
      remote_addr |-> "10.1.1.1"] : a \in {ClientX, ClientY}}

RecordCalls == [kind : {"record"}, cost_estimate : {Null, 50}, tokens_used : {0}]

GateConfigs ==
    [enabled : {TRUE}, limit : 1..MaxQuota, budget : {100}, cost : {50},
     threshold : {80}]

(* No entry; the first client blocked for good; the first client blocked
   until one tick from the start *)
GateBlocks ==
    {NoBlocks, [a \in {ClientX} |-> Null], [a \in {ClientX} |-> StartTime + 1]}

GateSteps == {1, Hour - 1}

Init ==
    /\ InitEmpty
    /\ config \in GateConfigs
    /\ workers \in {1, MaxProcs}
    /\ blocked_ips \in GateBlocks
    /\ scen = ScenStart(config, blocked_ips)

GateLimit == IF workers = 1 THEN MaxSeqRequests ELSE MaxRequests

Next ==
    \/ \E p \in Procs : \E r \in GateRequests \cup RecordCalls :
          Begin(p, r, GateLimit)
    \/ \E p \in Procs : IbLookup(p)
    \/ \E p \in Procs : IbCheck(p)
    \/ \E p \in Procs : RlEnter(p)
    \/ \E p \in Procs : RlLookup(p)
    \/ \E p \in Procs : RlDecide(p)
    \/ \E p \in Procs : BdCheck(p)
    \/ \E p \in Procs : CallF(p)
    \/ \E p \in Procs : RuRead(p)
    \/ \E p \in Procs : RuWrite(p)
    \/ Tick(GateSteps)

Spec == Init /\ [][Next]_vars

---------------------------------------------------------------------------
(* The budget governor called directly, by concurrent workers or by one *)

UsageCalls ==
    [kind : {"record"}, cost_estimate : {Null, 0, 40}, tokens_used : {0, 7}]

BudgetCalls == {[kind |-> "budget"]}

(* One tick, and a day *)
BudgetSteps == {1, Day}

InitBudget ==
    /\ InitEmpty
    /\ config \in GateConfigs
    /\ workers = MaxProcs
    /\ blocked_ips = NoBlocks
    /\ scen = ScenOff

NextBudget ==
    \/ \E p \in Procs : \E r \in UsageCalls \cup BudgetCalls :
          Begin(p, r, MaxRequests)
    \/ \E p \in Procs : BdCheck(p)
    \/ \E p \in Procs : RuRead(p)
    \/ \E p \in Procs : RuWrite(p)
    \/ Tick(BudgetSteps)

SpecBudget == InitBudget /\ [][NextBudget]_vars

InitSeqBudget ==
    /\ InitEmpty
    /\ config \in GateConfigs
    /\ workers = 1
    /\ blocked_ips = NoBlocks
    /\ scen = ScenOff

SeqBudget == InitSeqBudget /\ [][NextBudget]_vars

---------------------------------------------------------------------------
(* The budget governor on a day that already has usage: one record_api_usage
   call of the default cost has completed, and concurrent workers go on *)

DayCalls == [kind : {"record"}, cost_estimate : {Null, 40}, tokens_used : {0}]

UsedRow == [request_count |-> 1, estimated_cost |-> ScenConfig.cost,
            tokens_used |-> 0]

InitDay ==
    /\ now = StartTime
    /\ rate_limits = {}
    /\ rate_seq = 0
    /\ api_usage = [d \in {DateOf(StartTime)} |-> UsedRow]
    /\ recipes = {}
    /\ stats = [k \in {} |-> NoStats]
    /\ ledger = [d \in {DateOf(StartTime)} |->
                    [NoLedger EXCEPT !.n = 1, !.cost = ScenConfig.cost,
                                     !.added = ScenConfig.cost]]
    /\ fetched = {}
    /\ InitWorkers
    /\ config = ScenConfig
    /\ workers = MaxProcs
    /\ blocked_ips = NoBlocks
    /\ scen = ScenOff

NextDay ==
    \/ \E p \in Procs : \E r \in DayCalls \cup BudgetCalls :
          Begin(p, r, MaxRequests + 1)
    \/ \E p \in Procs : BdCheck(p)
    \/ \E p \in Procs : RuRead(p)
    \/ \E p \in Procs : RuWrite(p)
    \/ Tick(BudgetSteps)

SpecDay == InitDay /\ [][NextDay]_vars

---------------------------------------------------------------------------
(* The gate in front of a paid operation: the wrapped view runs the
   extraction and, when it has succeeded, calls record_api_usage with the
   cost of the call.  The requests are those of one hour of one date. *)

(* decorated_function line 235 for a view that records its usage: the
   operation is invoked and goes on into record_api_usage *)
CallPaid(p) ==
    /\ pc[p] = "call_f"
    /\ SetPc(p, "ru_read")
    /\ SetRes(p, [res[p] EXCEPT !.invoked = TRUE, !.http = 200])
    /\ UNCHANGED <<now, config, workers, rate_limits, rate_seq, api_usage,
                   blocked_ips, recipes, req, loc, started, ticks, stats,
                   ledger, fetched, scen>>

PaidRequests ==
    {[kind |-> "gate", xff |-> <<Token(FALSE, a), Token(TRUE, ProxyAddr)>>,
      remote_addr |-> ProxyAddr, cost_estimate |-> c, tokens_used |-> 0] :
        a \in {ClientX, ClientY}, c \in {Null, 40}}

InitPaid ==
    /\ InitEmpty
    /\ config \in GateConfigs
    /\ workers \in {1, MaxProcs}
    /\ blocked_ips \in GateBlocks
    /\ scen = ScenOff

NextPaid ==
    \/ \E p \in Procs : \E r \in PaidRequests : Begin(p, r, MaxRequests + 1)
    \/ \E p \in Procs : IbLookup(p)
    \/ \E p \in Procs : IbCheck(p)
    \/ \E p \in Procs : RlEnter(p)
    \/ \E p \in Procs : RlLookup(p)
    \/ \E p \in Procs : RlDecide(p)
    \/ \E p \in Procs : BdCheck(p)
    \/ \E p \in Procs : CallPaid(p)
    \/ \E p \in Procs : RuRead(p)
    \/ \E p \in Procs : RuWrite(p)

SpecPaid == InitPaid /\ [][NextPaid]_vars

---------------------------------------------------------------------------
(* The blocklist called directly *)

BlockCalls == [kind : {"blocked"}, ip : {ClientX, ClientY}]

(* Each address has no entry, a permanent one, or one until a tick from the
   start *)
BlockTables ==
    UNION {[A -> {Null, StartTime + 1}] : A \in SUBSET {ClientX, ClientY}}

BlockSteps == {1, Hour - 1}

InitBlock ==
    /\ InitEmpty
    /\ config \in GateConfigs
    /\ workers = MaxProcs
    /\ blocked_ips \in BlockTables
    /\ scen = ScenOff

NextBlock ==
    \/ \E p \in Procs : \E r \in BlockCalls : Begin(p, r, MaxRequests)
    \/ \E p \in Procs : IbLookup(p)
    \/ \E p \in Procs : IbCheck(p)
    \/ Tick(BlockSteps)

SpecBlock == InitBlock /\ [][NextBlock]_vars

---------------------------------------------------------------------------
(* POST /parse and POST /save as recipe_parser.py routes them *)

HostExample == <<101, 120, 97, 109, 112, 108, 101, 46, 99, 111, 109>>      \* "example.com"
HostLoopback == <<49, 50, 55, 46, 48, 46, 48, 46, 49>>      \* "127.0.0.1"
HostPrivate == <<49, 48, 46, 48, 46, 48, 46, 53>>      \* "10.0.0.5"
HostLocalName == <<76, 111, 99, 97, 108, 72, 111, 115, 116>>      \* "LocalHost"

Url(scheme, host) == [scheme |-> scheme, host |-> host]

ParseUrls ==
    {NoUrl, Url("https", HostExample), Url("http", HostLoopback),
     Url("", HostPrivate), Url("http", HostLocalName)}

ParseRequests == [kind : {"parse"}, url : ParseUrls]

SaveRequests == [kind : {"save"}, url : {Url("https", HostExample)}]

InitParse ==
    /\ InitEmpty
    /\ config \in GateConfigs
    /\ workers = MaxProcs
    /\ blocked_ips \in GateBlocks
    /\ scen = ScenOff

NextParse ==
    \/ \E p \in Procs : \E r \in ParseRequests \cup SaveRequests :
          Begin(p, r, MaxRequests)
    \/ \E p \in Procs : ParseLookup(p)
    \/ \E p \in Procs : ParseFetch(p)
    \/ \E p \in Procs : SaveRecipe(p)

SpecParse == InitParse /\ [][NextParse]_vars

---------------------------------------------------------------------------
(* validate_url_for_ssrf called directly *)

RECURSIVE Dec(_)
(* The decimal text of n *)
Dec(n) == IF n < 10 THEN <<48 + n>> ELSE Dec(n \div 10) \o <<48 + (n % 10)>>

HexDigitOf(v) == IF v < 10 THEN 48 + v ELSE 87 + v

RECURSIVE Hex(_)
(* The hexadecimal text of n *)
Hex(n) == IF n < 16 THEN <<HexDigitOf(n)>> ELSE Hex(n \div 16) \o <<HexDigitOf(n % 16)>>

Quad(a, b, c, d) ==
    Dec(a) \o <<Dot>> \o Dec(b) \o <<Dot>> \o Dec(c) \o <<Dot>> \o Dec(d)

(* Octets at and around the edges of the listed IPv4 networks *)
FirstOctets == {0, 9, 10, 11, 126, 127, 128, 169, 170, 172, 192, 255}
SecondOctets == {0, 15, 16, 31, 32, 167, 168, 169, 253, 254, 255}

QuadHosts ==
    {Quad(a, b, cd[1], cd[2]) :
        a \in FirstOctets, b \in SecondOctets, cd \in {<<0, 1>>, <<255, 255>>}}

(* First groups at and around the edges of fc00::/7 and fe80::/10 *)
FirstGroups == {0, 8193, 64511, 64512, 65023, 65024, 65151, 65152, 65215, 65216}

GroupHosts ==
    {<<OpenBracket>> \o Hex(g) \o <<Colon, Colon>> \o Hex(l) \o <<CloseBracket>> :
        g \in FirstGroups, l \in {0, 1, 2}}

NameHosts ==
    {<<101, 120, 97, 109, 112, 108, 101, 46, 99, 111, 109>>,      \* example.com
     <<108, 111, 99, 97, 108, 104, 111, 115, 116>>,      \* localhost
     <<76, 79, 67, 65, 76, 72, 79, 83, 84>>,      \* LOCALHOST
     <<76, 111, 99, 97, 108, 72, 111, 115, 116>>,      \* LocalHost
     <<108, 111, 99, 97, 108, 104, 111, 115, 116, 46, 108, 111, 99, 97, 108, 100, 111, 109, 97, 105, 110>>,      \* localhost.localdomain
     <<76, 111, 99, 97, 108, 104, 111, 115, 116, 46, 76, 111, 99, 97, 108, 68, 111, 109, 97, 105, 110>>,      \* Localhost.LocalDomain
     <<112, 114, 105, 110, 116, 101, 114, 46, 108, 111, 99, 97, 108>>,      \* printer.local
     <<80, 82, 73, 78, 84, 69, 82, 46, 76, 79, 67, 65, 76>>,      \* PRINTER.LOCAL
     <<97, 112, 112, 46, 108, 111, 99, 97, 108, 104, 111, 115, 116>>,      \* app.localhost
     <<120, 46, 76, 111, 99, 97, 108, 104, 111, 115, 116>>,      \* x.Localhost
     <<108, 111, 99, 97, 108>>,      \* local
     <<46, 108, 111, 99, 97, 108>>,      \* .local
     <<108, 111, 99, 97, 108, 104, 111, 115, 116, 46>>,      \* localhost.
     <<109, 121, 108, 111, 99, 97, 108, 104, 111, 115, 116>>,      \* mylocalhost
     <<110, 111, 116, 108, 111, 99, 97, 108>>,      \* notlocal
     <<108, 111, 99, 97, 108, 104, 111, 115, 116, 46, 99, 111, 109>>,      \* localhost.com
     <<101, 120, 97, 109, 112, 108, 101, 46, 108, 111, 99, 97, 108, 46, 99, 111, 109>>,      \* example.local.com
     <<49, 50, 55, 46, 49>>,      \* 127.1
     <<50, 49, 51, 48, 55, 48, 54, 52, 51, 51>>,      \* 2130706433
     <<48, 49, 48, 46, 48, 46, 48, 46, 53>>,      \* 010.0.0.5
     <<49, 48, 46, 48, 46, 48>>,      \* 10.0.0
     <<49, 48, 46, 48, 46, 48, 46, 53, 46>>,      \* 10.0.0.5.
     <<50, 53, 54, 46, 48, 46, 48, 46, 49>>,      \* 256.0.0.1
     <<49, 46, 50, 46, 51, 46, 52, 46, 53>>,      \* 1.2.3.4.5
     <<49, 48, 46, 48, 46, 48, 46, 53, 58, 56, 48, 56, 48>>,      \* 10.0.0.5:8080
     <<101, 120, 97, 109, 112, 108, 101, 46, 99, 111, 109, 58, 56, 48, 56, 48>>,      \* example.com:8080
     <<117, 115, 101, 114, 64, 49, 50, 55, 46, 48, 46, 48, 46, 49>>,      \* user@127.0.0.1
     <<117, 115, 101, 114, 58, 112, 119, 64, 108, 111, 99, 97, 108, 104, 111, 115, 116, 58, 56, 48>>,      \* user:pw@localhost:80
     <<49, 48, 46, 48, 46, 48, 46, 53, 64, 101, 120, 97, 109, 112, 108, 101, 46, 99, 111, 109>>,      \* 10.0.0.5@example.com
     <<101, 120, 97, 109, 112, 108, 101, 46, 99, 111, 109, 64, 49, 48, 46, 48, 46, 48, 46, 53>>,      \* example.com@10.0.0.5
     <<58, 56, 48>>,      \* :80
     <<58, 58, 49>>,      \* ::1
     <<49, 50, 51, 52, 46, 48, 46, 48, 46, 49>>,      \* 1234.0.0.1
     <<49, 48, 46, 46, 48, 46, 53>>,      \* 10..0.5
     <<91, 58, 58, 49, 93>>,      \* [::1]
     <<91, 58, 58, 93>>,      \* [::]
     <<91, 58, 58, 50, 93>>,      \* [::2]
     <<91, 48, 58, 48, 58, 48, 58, 48, 58, 48, 58, 48, 58, 48, 58, 49, 93>>,      \* [0:0:0:0:0:0:0:1]
     <<91, 48, 58, 48, 58, 48, 58, 48, 58, 48, 58, 48, 58, 48, 58, 48, 58, 49, 93>>,      \* [0:0:0:0:0:0:0:0:1]
     <<91, 102, 99, 48, 48, 58, 58, 49, 93>>,      \* [fc00::1]
     <<91, 102, 100, 49, 50, 58, 51, 52, 53, 54, 58, 58, 49, 93>>,      \* [fd12:3456::1]
     <<91, 70, 69, 56, 48, 58, 58, 49, 93>>,      \* [FE80::1]
     <<91, 102, 101, 56, 48, 58, 58, 93>>,      \* [fe80::]
     <<91, 102, 101, 98, 102, 58, 58, 49, 93>>,      \* [febf::1]
     <<91, 102, 101, 99, 48, 58, 58, 49, 93>>,      \* [fec0::1]
     <<91, 102, 98, 102, 102, 58, 58, 49, 93>>,      \* [fbff::1]
     <<91, 102, 101, 48, 48, 58, 58, 49, 93>>,      \* [fe00::1]
     <<91, 50, 48, 48, 49, 58, 100, 98, 56, 58, 58, 49, 93>>,      \* [2001:db8::1]
     <<91, 58, 58, 102, 102, 102, 102, 58, 49, 50, 55, 46, 48, 46, 48, 46, 49, 93>>,      \* [::ffff:127.0.0.1]
     <<91, 58, 58, 102, 102, 102, 102, 58, 55, 102, 48, 48, 58, 49, 93>>,      \* [::ffff:7f00:1]
     <<91, 58, 58, 49, 50, 55, 46, 48, 46, 48, 46, 49, 93>>,      \* [::127.0.0.1]
     <<91, 102, 99, 48, 48, 58, 58, 49, 48, 46, 48, 46, 48, 46, 49, 93>>,      \* [fc00::10.0.0.1]
     <<91, 49, 58, 58, 50, 58, 58, 51, 93>>,      \* [1::2::3]
     <<91, 58, 58, 58, 49, 93>>,      \* [:::1]
     <<91, 49, 50, 51, 52, 53, 58, 58, 49, 93>>,      \* [12345::1]
     <<91, 103, 58, 58, 49, 93>>,      \* [g::1]
     <<91, 58, 58, 49>>,      \* [::1
     <<58, 58, 49, 93>>,      \* ::1]
     <<91, 93>>,      \* []
     <<91, 58, 58, 49, 93, 58, 56, 48, 56, 48>>,      \* [::1]:8080
     <<91, 101, 120, 97, 109, 112, 108, 101, 46, 99, 111, 109, 93>>,      \* [example.com]
     <<91, 49, 58, 50, 58, 51, 58, 52, 58, 53, 58, 54, 58, 55, 58, 58, 93>>,      \* [1:2:3:4:5:6:7::]
     <<91, 58, 58, 50, 58, 51, 58, 52, 58, 53, 58, 54, 58, 55, 58, 56, 93>>,      \* [::2:3:4:5:6:7:8]
     <<91, 49, 58, 50, 58, 51, 58, 52, 58, 53, 58, 54, 58, 55, 58, 56, 93>>,      \* [1:2:3:4:5:6:7:8]
     <<91, 49, 58, 50, 58, 51, 58, 52, 58, 53, 58, 54, 58, 55, 93>>,      \* [1:2:3:4:5:6:7]
     <<91, 58, 49, 58, 50, 58, 51, 58, 52, 58, 53, 58, 54, 58, 55, 93>>,      \* [:1:2:3:4:5:6:7]
     <<91, 49, 58, 58, 93>>,      \* [1::]
     <<91, 102, 101, 56, 48, 58, 58, 49, 93, 120>>,      \* [fe80::1]x
     <<117, 64, 91, 102, 99, 48, 48, 58, 58, 93, 58, 49>>,      \* u@[fc00::]:1
     <<91, 49, 58, 50, 58, 51, 58, 52, 58, 53, 58, 54, 58, 55, 58, 56, 58, 58, 93>>,      \* [1:2:3:4:5:6:7:8::]
     <<91, 58, 58, 49, 58, 50, 58, 51, 58, 52, 58, 53, 58, 54, 58, 55, 58, 56, 93>>,      \* [::1:2:3:4:5:6:7:8]
     <<91, 49, 58, 50, 58, 51, 58, 52, 58, 58, 53, 58, 54, 58, 55, 58, 56, 93>>,      \* [1:2:3:4::5:6:7:8]
     <<91, 102, 100, 102, 102, 58, 102, 102, 102, 102, 58, 58, 102, 102, 102, 102, 93>>,      \* [fdff:ffff::ffff]
     <<91, 48, 58, 58, 49, 93>>,      \* [0::1]
     <<91, 58, 58, 48, 48, 48, 49, 93>>,      \* [::0001]
     <<91, 58, 58, 48, 48, 48, 48, 49, 93>>,      \* [::00001]
     <<91, 102, 99, 48, 48, 58, 58, 49, 46, 50, 46, 51, 93>>,      \* [fc00::1.2.3]
     <<91, 49, 46, 50, 46, 51, 46, 52, 93>>,      \* [1.2.3.4]
     <<91, 58, 58, 49, 46, 50, 46, 51, 46, 52, 58, 53, 93>>,      \* [::1.2.3.4:5]
     <<91, 49, 48, 46, 48, 46, 48, 46, 53, 58, 58, 93>>,      \* [10.0.0.5::]
     <<49, 50, 55, 46, 48, 46, 48, 46, 49>>,      \* 127.0.0.1
     <<49, 48, 46, 48, 46, 48, 46, 53>>,      \* 10.0.0.5
     <<49, 57, 50, 46, 49, 54, 56, 46, 49, 46, 49>>,      \* 192.168.1.1
     <<49, 55, 50, 46, 49, 54, 46, 48, 46, 49>>,      \* 172.16.0.1
     <<49, 54, 57, 46, 50, 53, 52, 46, 49, 54, 57, 46, 50, 53, 52>>,      \* 169.254.169.254
     <<91, 49, 58, 50, 58, 51, 58, 52, 58, 53, 58, 54, 58, 49, 46, 50, 46, 51, 46, 52, 93>>,      \* [1:2:3:4:5:6:1.2.3.4]
     <<91, 49, 58, 50, 58, 51, 58, 52, 58, 53, 58, 54, 58, 55, 58, 49, 46, 50, 46, 51, 46, 52, 93>>,      \* [1:2:3:4:5:6:7:1.2.3.4]
     <<91, 97, 58, 58, 49, 93>>,      \* [a::1]
     <<48, 46, 48, 46, 48, 46, 48>>,      \* 0.0.0.0
     <<91, 86, 49, 46, 120, 93>>,      \* [V1.x]
     <<91, 118, 49, 46, 120, 93>>,      \* [v1.x]
     <<91, 118, 103, 46, 120, 93>>,      \* [vg.x]
     <<91, 58, 58, 49, 93, 64, 101, 120, 97, 109, 112, 108, 101, 46, 99, 111, 109>>,      \* [::1]@example.com
     <<56, 46, 56, 46, 56, 46, 56>>,      \* 8.8.8.8
     <<119, 119, 119, 46, 97, 108, 108, 114, 101, 99, 105, 112, 101, 115, 46, 99, 111, 109>>}      \* www.allrecipes.com

ValidateHosts == {<<>>} \cup NameHosts \cup QuadHosts \cup GroupHosts

ValidateUrls == [scheme : {"http", "https", ""}, host : ValidateHosts]

ValidateCalls == [kind : {"validate"}, url : ValidateUrls]

(* The first worker has been handed a call *)
InitValidate ==
    /\ now = StartTime
    /\ rate_limits = {}
    /\ rate_seq = 0
    /\ api_usage = [d \in {} |-> NoRow]
    /\ recipes = {}
    /\ stats = [k \in {} |-> NoStats]
    /\ ledger = [d \in {} |-> NoLedger]
    /\ fetched = {}
    /\ config = ScenConfig
    /\ workers = 1
    /\ blocked_ips = NoBlocks
    /\ scen = ScenOff
    /\ req \in {[p \in Procs |-> IF p = 1 THEN r ELSE NoReq] : r \in ValidateCalls}
    /\ pc = [p \in Procs |-> IF p = 1 THEN "validate" ELSE "idle"]
    /\ loc = [p \in Procs |-> LocInit]
    /\ res = [p \in Procs |-> ResInit]
    /\ started = 1
    /\ ticks = 0

NextValidate == \E p \in Procs : Validate(p)

SpecValidate == InitValidate /\ [][NextValidate]_vars

---------------------------------------------------------------------------
(* get_client_ip called directly, on every header of up to two tokens and
   every peer address *)

IdentityTokens == [pad : BOOLEAN, txt : {"", ClientX, ClientY, ProxyAddr}]

(* No header; one token, which a server hands over without the blanks around
   the value; two tokens *)
IdentityHeaders ==
    {<<>>} \cup {<<t>> : t \in {x \in IdentityTokens : ~x.pad}}
           \cup {<<t, u>> : t, u \in IdentityTokens}

IdentityCalls ==
    [kind : {"identify"}, xff : IdentityHeaders,
     remote_addr : {"", ProxyAddr, ClientX}]

InitIdentity ==
    /\ now = StartTime
    /\ rate_limits = {}
    /\ rate_seq = 0
    /\ api_usage = [d \in {} |-> NoRow]
    /\ recipes = {}
    /\ stats = [k \in {} |-> NoStats]
    /\ ledger = [d \in {} |-> NoLedger]
    /\ fetched = {}
    /\ config = ScenConfig
    /\ workers = 1
    /\ blocked_ips = NoBlocks
    /\ scen = ScenOff
    /\ req \in {[p \in Procs |-> IF p = 1 THEN r ELSE NoReq] : r \in IdentityCalls}
    /\ pc = [p \in Procs |-> IF p = 1 THEN "identify" ELSE "idle"]
    /\ loc = [p \in Procs |-> LocInit]
    /\ res = [p \in Procs |-> ResInit]
    /\ started = 1
    /\ ticks = 0

NextIdentity == \E p \in Procs : Identify(p)

SpecIdentity == InitIdentity /\ [][NextIdentity]_vars

---------------------------------------------------------------------------
(* The gate in front of two routes: decorated_function wraps the view of
   /parse and the view of /save, and one worker serves the requests *)

RouteRequests ==
    {[kind |-> "gate", route |-> e,
      xff |-> <<Token(FALSE, a), Token(TRUE, ProxyAddr)>>,
      remote_addr |-> ProxyAddr] : a \in {ClientX, ClientY}, e \in Endpoints}

InitRoutes ==
    /\ InitEmpty
    /\ config \in GateConfigs
    /\ workers = 1
    /\ blocked_ips \in GateBlocks
    /\ scen = ScenOff

NextRoutes ==
    \/ \E p \in Procs : \E r \in RouteRequests : Begin(p, r, MaxQuota + 2)
    \/ \E p \in Procs : IbLookup(p)
    \/ \E p \in Procs : IbCheck(p)
    \/ \E p \in Procs : RlEnter(p)
    \/ \E p \in Procs : RlLookup(p)
    \/ \E p \in Procs : RlDecide(p)
    \/ \E p \in Procs : BdCheck(p)
    \/ \E p \in Procs : CallF(p)
    \/ Tick(GateSteps)

SpecRoutes == InitRoutes /\ [][NextRoutes]_vars

---------------------------------------------------------------------------
(* The gate with a counter store that can fail: any statement a stage sends
   to the database may raise instead of completing, and then the session is
   rolled back *)

(* Worker p's next step sends a statement to the database: the blocklist
   lookup, the delete of an expired entry, the cleanup DELETE, the window
   query, the commit of the count, the daily usage query *)
StoreStep(p) ==
    \/ pc[p] \in {"ib_lookup", "rl_lookup", "bd_check"}
    \/ pc[p] = "ib_check" /\ BlockExpired(loc[p].blk, now)
    \/ pc[p] = "rl_enter" /\ RateLimitEnabled(config)
    \/ pc[p] = "rl_decide" /\ ~OverLimit(loc[p].cnt, config.limit)

StoreFails(p) ==
    /\ req[p].kind = "gate"
    /\ StoreStep(p)
    /\ Raise(p, "OperationalError")
    /\ UNCHANGED <<now, config, workers, rate_limits, rate_seq, api_usage,
                   blocked_ips, recipes, req, started, ticks, stats, ledger,
                   fetched>>

InitFail ==
    /\ InitEmpty
    /\ config \in GateConfigs
    /\ workers = MaxProcs
    /\ blocked_ips \in GateBlocks
    /\ scen = ScenOff

NextFail ==
    \/ \E p \in Procs : \E r \in GateRequests : Begin(p, r, MaxRequests)
    \/ \E p \in Procs : IbLookup(p)
    \/ \E p \in Procs : IbCheck(p)
    \/ \E p \in Procs : RlEnter(p)
    \/ \E p \in Procs : RlLookup(p)
    \/ \E p \in Procs : RlDecide(p)
    \/ \E p \in Procs : BdCheck(p)
    \/ \E p \in Procs : CallF(p)
    \/ \E p \in Procs : StoreFails(p)
    \/ Tick(GateSteps)

SpecFail == InitFail /\ [][NextFail]_vars

---------------------------------------------------------------------------
(* Claims *)

Min(a, b) == IF a <= b THEN a ELSE b

(* In every window the calls admitted are the first `limit` ones *)
FirstQuotaAdmitted ==
    \A k \in DOMAIN stats : stats[k].admitted = Min(stats[k].calls, config.limit)

(* A denial decided inside its window tells the caller to wait at least a
   second *)
DenialHasPositiveRetry ==
    \A p \in Procs :
        (res[p].rl = "deny" /\ res[p].in_window) => res[p].retry_after > 0

(* C1: with one worker (calls run one at a time) and rate limiting enabled,
   in every hourly window of every address and endpoint the first `limit`
   check_rate_limit calls are allowed and every later one is denied with
   retry_after > 0, so that no window admits more than `limit` calls. *)
C1_SequentialRateLimit ==
    config.enabled => (FirstQuotaAdmitted /\ DenialHasPositiveRetry)

(* C2: when check_rate_limit calls of concurrent workers for one address and
   endpoint interleave inside one window, never more than `limit` of them
   are allowed. *)
C2_ConcurrentNeverOverQuota ==
    \A k \in DOMAIN stats : stats[k].admitted <= config.limit

GateOrder == <<"blocklist", "rate_limit", "budget", "f">>

Gated(p) == req[p].kind = "gate"

(* C3: decorated_function evaluates the blocklist, then the rate limit, then
   the budget; the stages evaluated are an initial part of that order, each
   one evaluated only after the one before it allowed; a stage that denies
   ends the request with no later stage evaluated; and the wrapped operation
   is invoked only after all three allowed. *)
C3_GateOrderShortCircuit ==
    \A p \in Procs : Gated(p) =>
        LET r == res[p] IN
        /\ r.stages = SubSeq(GateOrder, 1, Len(r.stages))
        /\ r.blocked # "none" <=> Len(r.stages) >= 1 /\ pc[p] # "ib_lookup"
                                   /\ pc[p] # "ib_check"
        /\ r.rl # "none" => r.blocked = "clear" /\ Len(r.stages) >= 2
        /\ r.budget # "none" => r.rl = "allow" /\ Len(r.stages) >= 3
        /\ r.invoked =>
              r.blocked = "clear" /\ r.rl = "allow" /\ r.budget = "ok"
              /\ r.stages = GateOrder
        /\ r.blocked = "blocked" =>
              pc[p] = "done" /\ r.stages = SubSeq(GateOrder, 1, 1)
              /\ r.rl = "none" /\ r.budget = "none" /\ ~r.invoked
        /\ r.rl = "deny" =>
              pc[p] = "done" /\ r.stages = SubSeq(GateOrder, 1, 2)
              /\ r.budget = "none" /\ ~r.invoked
        /\ r.budget = "exceeded" =>
              pc[p] = "done" /\ r.stages = SubSeq(GateOrder, 1, 3) /\ ~r.invoked

(* A request that passed the blocklist and the rate limit and was denied by
   the budget, next to one that was let through *)
C3_Witness ==
    \E p \in Procs :
        /\ Gated(p) /\ pc[p] = "done" /\ res[p].budget = "exceeded"
        /\ res[p].http = 503

(* C4: with quota 2, budget 0.01 and 0.005 a request, in one hour and date and
   from empty tables, by a single worker: the first request of X is allowed
   with remaining 1 and the recorded cost becomes 0.005, the second is allowed
   with remaining 0 and the cost becomes 0.010, the third is denied as
   rate-limited, and the first request of another address Y is denied as
   budget-exhausted. *)
C4_EndToEndScenario == scen.ok

(* The whole scenario has run *)
C4_Witness == scen.step = 6 /\ scen.ok

(* The accumulated cost of date d has reached the daily budget *)
Exhausted(d) ==
    d \in DOMAIN api_usage /\ api_usage[d].estimated_cost >= config.budget

(* C5: whenever check_daily_budget returns, it has denied, with a message, if
   and only if there is a row for the current date whose accumulated cost is
   at or above the daily budget; below the budget it allows, above the alert
   threshold too, and it allows when the date has no row. *)
C5_BudgetHardStop ==
    [][\A p \in Procs :
          (pc[p] = "bd_check" /\ pc'[p] # "bd_check") =>
              /\ res'[p].budget = "exceeded" <=> Exhausted(DateOf(now))
              /\ res'[p].budget = "ok" <=> ~Exhausted(DateOf(now))
              /\ res'[p].msg # "" <=> Exhausted(DateOf(now))
              /\ res'[p].warned => res'[p].budget = "ok"]_vars

(* A direct call that was denied with its message *)
C5_Witness ==
    \E p \in Procs :
        /\ req[p].kind = "budget" /\ pc[p] = "done"
        /\ res[p].budget = "exceeded" /\ res[p].msg # ""
        /\ Exhausted(DateOf(now))

(* C6: with one worker and no row for a date at the start, after N
   record_api_usage calls of the date the row's request_count is N, its
   accumulated cost is the sum of the costs the callers gave (N * C when each
   gave C; the default when none was given), and its tokens the sum of the
   tokens_used arguments. *)
C6_ExactAccumulation ==
    \A d \in DOMAIN ledger :
        /\ d \in DOMAIN api_usage
        /\ api_usage[d].request_count = ledger[d].n
        /\ api_usage[d].estimated_cost = ledger[d].cost
        /\ api_usage[d].tokens_used = ledger[d].tokens

(* C7: when record_api_usage calls of concurrent workers interleave, no
   update is lost: once no call is in flight the row's request_count is the
   number of calls that returned and its accumulated cost the sum of what
   they added. *)
C7_NoLostUsageUpdate ==
    InFlight = {} =>
        \A d \in DOMAIN ledger :
            /\ d \in DOMAIN api_usage
            /\ api_usage[d].request_count = ledger[d].n
            /\ api_usage[d].estimated_cost = ledger[d].added

(* Worker p takes the step of is_ip_blocked that judges the entry it read *)
JudgesEntry(p) == pc[p] = "ib_check" /\ pc'[p] # "ib_check"

(* C8: is_ip_blocked, for an entry whose blocked_until is set and earlier than
   now, returns not-blocked and removes the entry; a lookup of an address
   with no entry returns not-blocked and leaves the store as it is; and an
   address without an entry stays without one. *)
C8_ExpiredBlockIsPurged ==
    [][/\ \A p \in Procs :
            (JudgesEntry(p) /\ loc[p].blk # Null /\ now > loc[p].blk) =>
                /\ res'[p].blocked = "clear"
                /\ loc[p].ip \notin DOMAIN blocked_ips'
       /\ \A p \in Procs :
            (/\ pc[p] = "ib_lookup" /\ pc'[p] # "ib_lookup"
             /\ loc[p].ip \notin DOMAIN blocked_ips) =>
                /\ res'[p].blocked = "clear"
                /\ blocked_ips' = blocked_ips
       /\ \A a \in {ClientX, ClientY} :
            a \notin DOMAIN blocked_ips => a \notin DOMAIN blocked_ips'
      ]_vars

(* One call has purged the expired entry of an address and another call for
   the address, finding no entry, has returned not-blocked *)
C8_Witness ==
    \E p, q \in Procs :
        /\ p # q /\ pc[p] = "done" /\ pc[q] = "done"
        /\ req[p].kind = "blocked" /\ req[q] = req[p]
        /\ res[p].blocked = "clear" /\ res[p].purged
        /\ res[q].blocked = "clear" /\ ~res[q].purged
        /\ req[p].ip \notin DOMAIN blocked_ips

(* C9: is_ip_blocked, for an entry that is permanent or whose blocked_until is
   not earlier than now, returns blocked and leaves the store as it is; and
   a permanent entry is never removed. *)
C9_ActiveBlockHolds ==
    [][/\ \A p \in Procs :
            (JudgesEntry(p) /\ (loc[p].blk = Null \/ now <= loc[p].blk)) =>
                /\ res'[p].blocked = "blocked"
                /\ blocked_ips' = blocked_ips
       /\ \A a \in DOMAIN blocked_ips :
            blocked_ips[a] = Null =>
                a \in DOMAIN blocked_ips' /\ blocked_ips'[a] = Null
      ]_vars

(* A permanent entry and an entry at the very tick of its blocked_until have
   both been found blocked, after the clock has moved *)
C9_Witness ==
    \E p, q \in Procs :
        /\ pc[p] = "done" /\ pc[q] = "done" /\ now > StartTime
        /\ req[p].kind = "blocked" /\ req[q].kind = "blocked"
        /\ res[p].blocked = "blocked" /\ res[q].blocked = "blocked"
        /\ req[p].ip \in DOMAIN blocked_ips /\ blocked_ips[req[p].ip] = Null
        /\ req[q].ip \in DOMAIN blocked_ips /\ blocked_ips[req[q].ip] = now

(* C10: on POST /parse no outbound fetch is made to a URL that
   validate_url_for_ssrf rejects, whatever the blocklist, the rate windows
   and the budget are. *)
C10_NoFetchOfRejectedUrl ==
    \A u \in fetched : validate_url_for_ssrf(u).ok

(* Worker p is about to run the extraction of a POST /parse *)
Extracting(p) == req[p].kind = "parse" /\ pc[p] = "parse_fetch"

(* The gate has let worker p's request through *)
GateAllowed(p) ==
    res[p].blocked = "clear" /\ res[p].rl = "allow" /\ res[p].budget = "ok"

(* C11: the extraction of a POST /parse runs only after the gate (blocklist,
   rate limit, budget) has allowed the request; no request runs it without
   having been counted by check_rate_limit. *)
C11_ExtractionIsGated ==
    \A p \in Procs : Extracting(p) => GateAllowed(p)

(* Worker p's POST /parse has ended with a recipe extracted *)
ExtractionSucceeded(p) ==
    /\ req[p].kind = "parse" /\ pc[p] = "done"
    /\ res[p].http = 200 /\ res[p].error = "none"

(* C12: a POST /parse whose extraction succeeded has been followed by a
   record_api_usage call: once it has ended, the ledger of the date holds a
   recorded call. *)
C12_UsageRecordedOnSuccess ==
    \A p \in Procs :
        ExtractionSucceeded(p) =>
            \E d \in DOMAIN ledger : ledger[d].n >= 1

(* Worker p's call of validate_url_for_ssrf has returned *)
Validated(p) == req[p].kind = "validate" /\ pc[p] = "done"

TableRejected ==
    {Url("http", Quad(127, 0, 0, 1)), Url("http", Quad(10, 0, 0, 5)),
     Url("http", Quad(192, 168, 1, 1)), Url("http", Quad(172, 16, 0, 1)),
     Url("http", Quad(169, 254, 169, 254)), Url("http", TxtLocalhost)}

TableAccepted == {Url("https", HostExample)}

(* C13: validate_url_for_ssrf rejects http://127.0.0.1/x, http://10.0.0.5/x,
   http://192.168.1.1/x, http://172.16.0.1/x, http://169.254.169.254/x and
   http://localhost/x, and accepts https://example.com/recipe. *)
C13_SsrfTable ==
    \A p \in Procs : Validated(p) =>
        /\ req[p].url \in TableRejected => ~res[p].valid
        /\ req[p].url \in TableAccepted => res[p].valid

(* The metadata address has been rejected *)
C13_Witness ==
    \E p \in Procs :
        /\ Validated(p) /\ req[p].url = Url("http", Quad(169, 254, 169, 254))
        /\ ~res[p].valid

(* An address of one of the eight listed ranges: 10/8, 172.16/12, 192.168/16,
   127/8, 169.254/16, ::1, fc00::/7 (first group fc00 to fdff), fe80::/10
   (first group fe80 to febf) *)
InListedRange(ip) ==
    LET a == ip.parts IN
    \/ /\ ip.version = 4
       /\ \/ a[1] = 10
          \/ a[1] = 172 /\ a[2] \in 16..31
          \/ a[1] = 192 /\ a[2] = 168
          \/ a[1] = 127
          \/ a[1] = 169 /\ a[2] = 254
    \/ /\ ip.version = 6
       /\ \/ a = <<0, 0, 0, 0, 0, 0, 0, 1>>
          \/ a[1] \in 64512..65023
          \/ a[1] \in 65152..65215

RejectsHost(h, ip) ==
    \/ h = <<>>
    \/ h \in {TxtLocalhost, TxtLocalhostLocaldomain}
    \/ EndsWith(h, TxtDotLocal)
    \/ EndsWith(h, TxtDotLocalhost)
    \/ InListedRange(ip)

RejectsLower(h) == RejectsHost(h, ip_address(h))

(* The decision rule: no hostname, a localhost name, a local domain, or an
   IP literal of a listed range *)
RuleRejects(url) ==
    UrlparseRaises(url) \/ RejectsLower(LowerStr(Hostname(url)))

(* C14: validate_url_for_ssrf returns ok = false exactly when no hostname can
   be extracted, or the hostname is localhost or localhost.localdomain in any
   letter case, or it ends in .local or .localhost in any letter case, or it
   is an IP literal of one of the eight listed ranges; in every other case
   it returns ok = true; the reason is empty exactly when ok is true; and the
   call returns, it never raises. *)
C14_SsrfDecisionRule ==
    \A p \in Procs : Validated(p) =>
        /\ res[p].valid <=> ~RuleRejects(req[p].url)
        /\ res[p].reason = "" <=> res[p].valid
        /\ res[p].error = "none"

(* An address of fc00::/7 written in upper case with a port has been
   rejected with a reason *)
C14_Witness ==
    \E p \in Procs :
        /\ Validated(p)
        /\ req[p].url = Url("https", <<117, 64, 91, 102, 99, 48, 48, 58, 58, 93, 58, 49>>)
        /\ ~res[p].valid /\ res[p].reason # ""

(* Worker p's request through decorated_function has ended *)
GateEnded(p) == Gated(p) /\ pc[p] = "done"

(* The request ended as exactly one of: 403, 429, 503, the wrapped operation *)
OneOutcome(r) ==
    /\ r.http \in {403, 429, 503} \/ r.invoked
    /\ r.invoked => r.http \notin {403, 429, 503}

MappedOutcome(r) ==
    /\ r.blocked = "blocked" => r.http = 403
    /\ r.rl = "deny" => r.http = 429 /\ r.retry_header = r.retry_after
    /\ r.budget = "exceeded" => r.http = 503
    /\ r.http = 403 => r.blocked = "blocked"
    /\ r.http = 429 => r.rl = "deny"
    /\ r.http = 503 => r.budget = "exceeded"

(* C15: a request denied by the blocklist ends with status 403, one denied by
   the rate limiter with status 429 and a Retry-After header equal to the
   retry_after that check_rate_limit returned, one denied by the budget with
   status 503; and every request ends with exactly one of 403, 429, 503 and
   the invocation of the wrapped operation. *)
C15_OutcomeMapping ==
    \A p \in Procs : GateEnded(p) => MappedOutcome(res[p]) /\ OneOutcome(res[p])

(* C16: when a counter-store operation of the gate fails (the blocklist lookup
   or delete, the rate-window read or write, the daily usage read), the
   request is not admitted: it ends there with an error and the wrapped
   operation is never invoked for it. *)
C16_FailClosed ==
    \A p \in Procs :
        (Gated(p) /\ res[p].error # "none") =>
            /\ pc[p] = "done"
            /\ ~res[p].invoked
            /\ res[p].http = 500

(* The daily usage read of a request that the blocklist and the rate limiter
   had let through has failed, and the operation was not invoked *)
C16_Witness ==
    \E p \in Procs :
        /\ GateEnded(p) /\ res[p].error = "OperationalError"
        /\ res[p].blocked = "clear" /\ res[p].rl = "allow"
        /\ res[p].budget = "none" /\ ~res[p].invoked

(* C17: with RATE_LIMIT_ENABLED false, every check_rate_limit call, for any
   address and endpoint and however many there are, returns allowed with
   retry_after 0 and remaining 999 at its first step, and no step creates,
   changes or deletes a row of rate_limits. *)
C17_KillSwitch ==
    [][~config.enabled =>
          /\ rate_limits' = rate_limits
          /\ rate_seq' = rate_seq
          /\ \A p \in Procs :
                /\ pc'[p] \notin {"rl_lookup", "rl_decide"}
                /\ (pc[p] = "rl_enter" /\ pc'[p] # "rl_enter") =>
                      /\ pc'[p] = "done"
                      /\ res'[p].rl = "allow"
                      /\ res'[p].retry_after = 0
                      /\ res'[p].remaining = DisabledRemaining
                      /\ res'[p].remaining > config.limit]_vars

(* With limiting off, a third call has been allowed for the client whose
   window was at its quota, after the clock moved, next to a call for another
   address, and the row at quota and the old row are still there *)
C17_Witness ==
    /\ ~config.enabled
    /\ started = MaxRequests
    /\ now > StartTime
    /\ rate_limits = {RowAtQuota, RowStale}
    /\ \E p, q \in Procs :
          /\ pc[p] = "done" /\ pc[q] = "done"
          /\ req[p] = [kind |-> "rl", ip |-> ClientX, endpoint |-> "/parse"]
          /\ req[q].kind = "rl" /\ req[q].ip = ClientY
          /\ res[p].rl = "allow" /\ res[p].remaining = DisabledRemaining
          /\ res[q].rl = "allow" /\ res[q].remaining = DisabledRemaining

(* C18: whenever check_rate_limit denies, retry_after is the whole seconds
   from the current time to the end of the window the decision was made in,
   and hence 0 < retry_after <= 3600, also when the clock moves, possibly
   past the top of the hour, between the computation of current_window and
   the computation of retry_after. *)
C18_RetryHintInRange ==
    \A p \in Procs :
        res[p].rl = "deny" =>
            /\ 0 < res[p].retry_after
            /\ res[p].retry_after <= SecondsPerHour

(* The request_count stored for window k in a table, 0 when it has no row *)
CountIn(table, k) ==
    IF \E x \in table : KeyOf(x) = k
    THEN (CHOOSE x \in table : KeyOf(x) = k).request_count
    ELSE 0

AdmittedIn(st, k) == IF k \in DOMAIN st THEN st[k].admitted ELSE 0

(* Worker p takes the step of check_rate_limit that decides *)
Decides(p) == pc[p] = "rl_decide" /\ pc'[p] # "rl_decide"

(* C19: every allowed check_rate_limit call writes, for the window it
   computed (address, endpoint, hour), a request_count one more than the
   count it found, and returns remaining = limit - that new count, between 0
   and limit - 1; with one worker the stored count thereby grows by exactly
   one and equals the number of calls allowed in the window, so the k-th
   allowed call returns limit - k; every denied call returns remaining 0 and
   changes no row. *)
C19_RemainingCount ==
    [][\A p \in Procs :
          Decides(p) =>
              LET k == RateKey(loc[p].ip, loc[p].endpoint, loc[p].cw) IN
              IF res'[p].rl = "allow"
              THEN /\ \E x \in rate_limits' :
                         /\ KeyOf(x) = k
                         /\ x.request_count = loc[p].cnt + 1
                         /\ res'[p].remaining = config.limit - x.request_count
                   /\ res'[p].remaining >= 0
                   /\ res'[p].remaining <= config.limit - 1
                   /\ workers = 1 =>
                         /\ CountIn(rate_limits', k) = CountIn(rate_limits, k) + 1
                         /\ CountIn(rate_limits', k) = AdmittedIn(stats', k)
                         /\ res'[p].remaining = config.limit - AdmittedIn(stats', k)
              ELSE /\ rate_limits' = rate_limits
                   /\ IF res'[p].rl = "deny"
                      THEN res'[p].remaining = 0
                      ELSE workers # 1 /\ res'[p].error # "none"]_vars

(* With one worker, the last call the largest quota allows has returned
   remaining 0 and a further call of the window has been denied with
   remaining 0 *)
C19_Witness ==
    /\ workers = 1
    /\ config.limit = MaxQuota
    /\ \E x \in rate_limits : x.request_count = MaxQuota
    /\ \E k \in DOMAIN stats :
          stats[k].admitted = MaxQuota /\ stats[k].calls = MaxQuota + 1
    /\ \E p \in Procs :
          /\ pc[p] = "done"
          /\ res[p].rl = "deny" /\ res[p].remaining = 0

(* C20: in every reachable state, also when the first calls of a window by
   concurrent workers interleave, rate_limits has at most one row for each
   (ip_address, endpoint, window_start). *)
C20_UniqueRateWindow ==
    \A x, y \in rate_limits : KeyOf(x) = KeyOf(y) => x = y

(* Worker p commits the INSERT of a row it did not find *)
InsertsUsage(p) ==
    /\ pc[p] = "ru_write" /\ pc'[p] = "done"
    /\ ~loc[p].usage.found
    /\ res'[p].error = "none"

(* C21: api_usage never holds two rows of one date, also when the first
   record_api_usage calls of a date by concurrent workers interleave: a row
   is inserted only while the table has none of its date, by the first
   record_api_usage call of the date to complete, and a second INSERT of the
   date fails and writes nothing; and no operation of the gate, nor
   record_api_usage, ever removes a row of api_usage. *)
C21_UniqueDailyUsage ==
    [][/\ \A p \in Procs :
            InsertsUsage(p) =>
                /\ loc[p].today \notin DOMAIN api_usage
                /\ loc[p].today \in DOMAIN api_usage'
                /\ LedgerOf(loc[p].today).n = 0
       /\ \A p \in Procs :
            (/\ pc[p] = "ru_write" /\ pc'[p] # "ru_write"
             /\ ~loc[p].usage.found
             /\ loc[p].today \in DOMAIN api_usage) =>
                res'[p].error = "IntegrityError" /\ api_usage' = api_usage
       /\ DOMAIN api_usage \subseteq DOMAIN api_usage'
       /\ \A d \in DOMAIN api_usage' \ DOMAIN api_usage :
            \E p \in Procs : InsertsUsage(p) /\ loc[p].today = d
      ]_vars

(* Two workers made the first record_api_usage call of a date at the same
   time: one inserted the row, the other's INSERT failed, and the table holds
   the row of the one call that completed *)
C21_Witness ==
    \E p, q \in Procs :
        /\ pc[p] = "done" /\ pc[q] = "done"
        /\ req[p].kind = "record" /\ req[q].kind = "record"
        /\ res[p].error = "none" /\ res[q].error = "IntegrityError"
        /\ DateOf(now) \in DOMAIN api_usage
        /\ api_usage[DateOf(now)].request_count = 1
        /\ LedgerOf(DateOf(now)).n = 1

(* C22: in every reachable state, however the check_rate_limit calls of
   concurrent workers interleave, the request_count of every row of
   rate_limits is at most RATE_LIMIT_PER_HOUR + 1. *)
C22_BoundedCounter ==
    \A x \in rate_limits : x.request_count <= config.limit + 1

(* Concurrent calls of one window have raced: more calls were allowed than
   the quota, and the row of the window holds a count at the quota *)
C22_Witness ==
    /\ config.enabled
    /\ \E x \in rate_limits :
          /\ x.request_count = config.limit
          /\ KeyOf(x) \in DOMAIN stats
          /\ stats[KeyOf(x)].admitted > config.limit

(* Worker p takes the step of check_rate_limit that reads the window's row *)
LooksUp(p) == pc[p] = "rl_lookup" /\ pc'[p] # "rl_lookup"

(* Every earlier call for worker p's address and endpoint was counted in a
   window that has ended: p's call is the first of a new clock hour *)
InNewHour(p) ==
    \A k \in DOMAIN stats :
        (k.ip_address = loc[p].ip /\ k.endpoint = loc[p].endpoint) =>
            k.window_start + Hour <= now

(* The calls allowed in one window, and in two consecutive ones *)
BurstBound(st, limit) ==
    /\ \A k \in DOMAIN st : st[k].admitted <= limit
    /\ \A k, n \in DOMAIN st :
          (/\ k.ip_address = n.ip_address /\ k.endpoint = n.endpoint
           /\ n.window_start = k.window_start + Hour) =>
              st[k].admitted + st[n].admitted <= 2 * limit

(* C23: with one worker, a check_rate_limit call in a new clock hour reads a
   fresh window, starting at the top of that hour with count 0, and a call
   that reads count 0 is allowed, whatever the window of the hour before
   holds; and the calls allowed for one address and endpoint are at most
   `limit` in any window and at most 2 * limit in any two consecutive
   windows. *)
C23_WindowResetAndBurst ==
    [][config.enabled =>
          /\ \A p \in Procs :
                (LooksUp(p) /\ InNewHour(p)) =>
                    /\ loc'[p].cnt = 0 /\ loc'[p].rec = 0
                    /\ loc'[p].cw <= now /\ now < loc'[p].cw + Hour
                    /\ loc'[p].cw % Hour = 0
          /\ \A p \in Procs :
                (Decides(p) /\ loc[p].cnt = 0) => res'[p].rl = "allow"
          /\ BurstBound(stats', config.limit)]_vars

(* The window of one hour was exhausted, a call was denied in it, and the
   first call of the next hour was allowed: 2 * limit calls allowed in two
   consecutive windows *)
C23_Witness ==
    \E k, n \in DOMAIN stats :
        /\ k.ip_address = n.ip_address /\ k.endpoint = n.endpoint
        /\ n.window_start = k.window_start + Hour
        /\ stats[k].admitted = config.limit
        /\ stats[k].calls > config.limit
        /\ stats[n].admitted = config.limit
        /\ \E p \in Procs : pc[p] = "done" /\ res[p].rl = "allow"

(* Worker p's call of get_client_ip has returned *)
Identified(p) == req[p].kind = "identify" /\ pc[p] = "done"

(* C24: get_client_ip returns the first comma-separated token of
   X-Forwarded-For, without the blanks around it, whenever the header is
   present; the peer address when it is absent; 0.0.0.0 when there is no peer
   address either; and what it returns is never the empty string. *)
C24_ClientIdentity ==
    \A p \in Procs : Identified(p) =>
        /\ res[p].client # ""
        /\ res[p].client =
              IF req[p].xff # <<>> THEN req[p].xff[1].txt
              ELSE IF req[p].remote_addr # "" THEN req[p].remote_addr
              ELSE "0.0.0.0"

(* C25: the rate windows are keyed by address, endpoint and window start, and
   a request that goes through the gate is counted in the window of its own
   endpoint: the row an allowed request writes is the row of the route the
   request was made to, and a request is denied only when the window of its
   own route holds `limit` or more, so that an address that has used up its
   quota on one gated route is still allowed its full quota on another gated
   route in the same hour. *)
C25_PerEndpointQuota ==
    [][\A p \in Procs :
          (Decides(p) /\ Gated(p)) =>
              LET own == RateKey(loc[p].ip, req[p].route, loc[p].cw) IN
              /\ \A x \in rate_limits' \ rate_limits : KeyOf(x) = own
              /\ res'[p].rl = "deny" => CountIn(rate_limits, own) >= config.limit
      ]_vars

(* Worker p takes the step of record_api_usage that commits *)
Records(p) == pc[p] = "ru_write" /\ pc'[p] = "done" /\ res'[p].error = "none"

(* C26: a record_api_usage call adds to the date's estimated_cost exactly the
   cost estimate it was given, whenever one was given, an estimate of 0
   included, and adds COST_PER_REQUEST only when it was given none. *)
C26_SuppliedCostOrDefault ==
    [][\A p \in Procs :
          Records(p) =>
              api_usage'[loc[p].today].estimated_cost
                  = loc[p].usage.estimated_cost
                    + (IF req[p].cost_estimate # Null
                       THEN req[p].cost_estimate
                       ELSE config.cost)]_vars

(* The rows of rate_limits that the step removes *)
Removed == {x \in rate_limits : \A y \in rate_limits' : y.id # x.id}

(* C27: with one worker, the DELETE at the start of check_rate_limit removes
   only rows whose window_start is more than an hour before the current
   time, never the row of the window the call reads; and every call returns
   what a limiter that never deletes a row returns: it is allowed exactly
   when the calls already allowed in its window are fewer than `limit`, with
   remaining = limit - (those calls + 1), and denied with remaining 0
   otherwise. *)
C27_CleanupKeepsResults ==
    [][\A p \in Procs :
          Decides(p) =>
              LET k == RateKey(loc[p].ip, loc[p].endpoint, loc[p].cw)
                  kept == AdmittedIn(stats, k)
              IN /\ \A x \in Removed :
                        x.window_start + Hour < now /\ KeyOf(x) # k
                 /\ res'[p].rl = "allow" <=> kept < config.limit
                 /\ res'[p].rl = "deny" <=> kept >= config.limit
                 /\ res'[p].remaining =
                        IF kept < config.limit THEN config.limit - (kept + 1)
                        ELSE 0]_vars

(* The row of an earlier window, in which calls were allowed, has been
   deleted by a call that was allowed in a later window *)
C27_Witness ==
    /\ workers = 1
    /\ \E k \in DOMAIN stats :
          /\ stats[k].admitted >= 1
          /\ \A x \in rate_limits : KeyOf(x) # k
    /\ \E p \in Procs : pc[p] = "done" /\ res[p].rl = "allow"
    /\ rate_limits # {}

(* Worker p takes the step of check_daily_budget that decides *)
ChecksBudget(p) == pc[p] = "bd_check" /\ pc'[p] # "bd_check"

(* C28: a check_daily_budget denies only when the accumulated cost of the
   current date has reached the daily budget; once a check of a date has
   denied, every later check of that date denies; and a check on a date that
   has no usage recorded yet, as the first check of the next date, allows. *)
C28_ExhaustionLastsTheDay ==
    [][\A p \in Procs :
          ChecksBudget(p) =>
              /\ res'[p].budget = "exceeded" => Exhausted(DateOf(now))
              /\ LedgerOf(DateOf(now)).denied => res'[p].budget = "exceeded"
              /\ DateOf(now) \notin DOMAIN api_usage =>
                     res'[p].budget = "ok"]_vars

(* The window worker p's request was counted in *)
WindowOf(p) == RateKey(loc[p].ip, loc[p].endpoint, loc[p].cw)

(* The budget stage denies worker p's request at this step *)
BudgetDenies(p) ==
    Gated(p) /\ ChecksBudget(p) /\ res'[p].budget = "exceeded"

(* C29: a request that the budget stage denies has been allowed and counted
   by the rate-limit stage before: the count of its window was incremented
   and committed, and the denial, which ends the request with 503 and
   without the wrapped operation, leaves rate_limits as it is; so, with one
   worker, once `limit` requests of an address were counted in a window,
   budget-denied ones included, its next request in the window is denied as
   rate-limited. *)
C29_BudgetDenialCostsQuota ==
    [][/\ \A p \in Procs :
            BudgetDenies(p) =>
                /\ res[p].rl = "allow"
                /\ AdmittedIn(stats, WindowOf(p)) >= 1
                /\ rate_limits' = rate_limits /\ stats' = stats
                /\ res'[p].http = 503 /\ ~res'[p].invoked
       /\ \A p \in Procs :
            (Gated(p) /\ Decides(p) /\ res'[p].rl = "allow") =>
                \E x \in rate_limits' :
                    KeyOf(x) = WindowOf(p) /\ x.request_count = loc[p].cnt + 1
       /\ \A p \in Procs :
            (/\ Gated(p) /\ Decides(p) /\ workers = 1
             /\ AdmittedIn(stats, WindowOf(p)) >= config.limit) =>
                res'[p].rl = "deny" /\ res'[p].http = 429
      ]_vars

(* With one worker and quota 1, the only address that sent requests had its
   one counted request denied by the budget stage, and its next request of
   the hour has been denied as rate-limited: the row of its window holds 1 *)
C29_Witness ==
    /\ workers = 1 /\ config.limit = 1
    /\ LedgerOf(DateOf(now)).denied
    /\ \E k \in DOMAIN stats :
          /\ DOMAIN stats = {k}
          /\ stats[k].admitted = 1 /\ stats[k].calls = 2
          /\ CountIn(rate_limits, k) = 1
    /\ \E p \in Procs :
          /\ GateEnded(p) /\ res[p].rl = "deny" /\ res[p].http = 429

(* C30: a request that the blocklist denies changes no row of rate_limits and
   no row of api_usage at any of its steps, and ends with 403; a
   check_rate_limit call that denies leaves the count of the row of its
   window, and every other row of rate_limits and api_usage, as it was; so
   denied requests, however many, move no counter. *)
C30_DenialsMoveNoCounter ==
    [][/\ \A p \in Procs :
            (Gated(p) /\ pc'[p] # pc[p] /\ res'[p].blocked = "blocked") =>
                /\ rate_limits' = rate_limits /\ api_usage' = api_usage
                /\ res'[p].http = 403
       /\ \A p \in Procs :
            (Gated(p) /\ pc[p] \in {"ib_lookup", "ib_check"}
             /\ pc'[p] # pc[p]) =>
                rate_limits' = rate_limits /\ api_usage' = api_usage
       /\ \A p \in Procs :
            (Decides(p) /\ res'[p].rl = "deny") =>
                /\ CountIn(rate_limits', WindowOf(p))
                      = CountIn(rate_limits, WindowOf(p))
                /\ rate_limits' = rate_limits /\ api_usage' = api_usage
      ]_vars

(* With one worker: the blocked address made a request, which is counted in
   no window, and the other address was denied twice in a window whose row
   still holds the quota *)
C30_Witness ==
    /\ workers = 1
    /\ ClientX \in DOMAIN blocked_ips
    /\ DOMAIN ledger = {}
    /\ \E k \in DOMAIN stats :
          /\ DOMAIN stats = {k}
          /\ k.ip_address = ClientY
          /\ stats[k].admitted = config.limit
          /\ stats[k].calls = config.limit + 2
          /\ started = stats[k].calls + 1
          /\ CountIn(rate_limits, k) = config.limit
    /\ \E p \in Procs : GateEnded(p) /\ res[p].http = 429

(* The requests between their budget check and the end of their usage
   record *)
Paying == {p \in Procs : Gated(p) /\ res[p].budget = "ok" /\ pc[p] # "done"}

(* Every date's accumulated cost is below the budget plus k times cost *)
BelowOvershoot(usage, k, cost) ==
    \A d \in DOMAIN usage :
        usage[d].estimated_cost < config.budget + k * cost

(* C31: a request is checked by check_daily_budget and records its usage in a
   later step; with at most K requests between the two at a time (K the
   number of workers) and each recording at most C (the default cost), the
   accumulated cost of a date never reaches DAILY_BUDGET_USD + K * C; with
   one worker it stays below DAILY_BUDGET_USD + C; and the budget stage
   allows no request once the recorded cost of the date has reached the
   budget. *)
C31_BudgetOvershootBound ==
    [][/\ Cardinality(Paying) <= workers
       /\ BelowOvershoot(api_usage', workers, config.cost)
       /\ \A p \in Procs :
             (ChecksBudget(p) /\ res'[p].budget = "ok") =>
                 ~Exhausted(DateOf(now))]_vars

(* Two requests were between their check and their record at the same time
   and the date's cost has passed the bound of one worker: it is at or above
   the budget plus one request's cost *)
C31_Witness ==
    /\ workers = MaxProcs
    /\ \E d \in DOMAIN api_usage :
          /\ api_usage[d].estimated_cost >= config.budget + config.cost
          /\ api_usage[d].estimated_cost < config.budget + 2 * config.cost
    /\ \E p \in Procs : GateEnded(p) /\ res[p].invoked /\ res[p].error = "none"

(* C32: check_daily_budget only reads: whether it allows or denies, the step
   creates no row of api_usage and changes no field of one, and leaves
   rate_limits and blocked_ips as they are. *)
C32_BudgetCheckReadsOnly ==
    [][\A p \in Procs :
          ChecksBudget(p) =>
              /\ api_usage' = api_usage
              /\ rate_limits' = rate_limits /\ rate_seq' = rate_seq
              /\ blocked_ips' = blocked_ips]_vars

(* A check has allowed on a date that has no row, the day after usage was
   recorded, and the date still has no row *)
C32_Witness ==
    /\ DOMAIN api_usage # {}
    /\ DateOf(now) \notin DOMAIN api_usage
    /\ \E p \in Procs :
          /\ req[p].kind = "budget" /\ pc[p] = "done"
          /\ res[p].budget = "ok"

(* Worker p takes a step of a check_rate_limit call *)
LimiterStep(p) ==
    pc[p] \in {"rl_enter", "rl_lookup", "rl_decide"} /\ pc'[p] # pc[p]

(* The rows of the current hour that belong to another address than a *)
OthersCurrent(a) ==
    {x \in rate_limits :
        x.ip_address # a /\ x.window_start = TruncToHour(now)}

(* C33: no step of a check_rate_limit call for an address changes or removes
   a row of the current hour that belongs to another address, and the rows a
   call writes are rows of its own address; the count a call decides on is 0
   or the count of a row of its own address, and a call that decides within
   the hour of its window is denied exactly when that count has reached
   `limit`: what an address is answered in a window does not depend on the
   calls of another address. *)
C33_AddressIsolation ==
    [][\A p \in Procs :
          LimiterStep(p) =>
              /\ OthersCurrent(loc[p].ip) \subseteq rate_limits'
              /\ \A y \in rate_limits' \ rate_limits :
                    y.ip_address = loc[p].ip
              /\ LooksUp(p) =>
                    \/ loc'[p].cnt = 0 /\ loc'[p].rec = 0
                    \/ \E x \in rate_limits :
                          /\ x.ip_address = loc[p].ip
                          /\ x.id = loc'[p].rec
                          /\ x.request_count = loc'[p].cnt
              /\ (Decides(p) /\ TruncToHour(now) = loc[p].cw) =>
                    /\ res'[p].rl = "deny" <=> loc[p].cnt >= config.limit
                    /\ res'[p].rl = "allow" <=> loc[p].cnt < config.limit
      ]_vars

(* One address has used up its quota and been denied, and a call of the other
   address in the same window was allowed with all but one of its quota
   remaining: its row holds 1 *)
C33_Witness ==
    \E k, n \in DOMAIN stats :
        /\ k.ip_address # n.ip_address
        /\ k.endpoint = n.endpoint /\ k.window_start = n.window_start
        /\ stats[k].admitted >= config.limit /\ stats[k].calls > stats[k].admitted
        /\ stats[n].calls = 1 /\ CountIn(rate_limits, n) = 1
        /\ \E p \in Procs :
              /\ pc[p] = "done" /\ req[p].kind = "rl"
              /\ req[p].ip = n.ip_address
              /\ res[p].rl = "allow"
              /\ res[p].remaining = config.limit - 1

====
